---- MODULE Spec2Model ----
(***************************************************************************)
(* A model of blynk_io: the message codec (src/src/message.rs), the        *)
(* connection with its id counter, send-with-retry and framed read         *)
(* (src/src/client.rs, src/src/async_impl/client.rs) and the session       *)
(* state machine with its dispatcher (src/src/lib.rs,                      *)
(* src/src/async_impl/mod.rs).                                             *)
(*                                                                         *)
(* Strings are modelled as the sequences of their UTF-8 bytes, byte        *)
(* buffers as sequences of numbers in 0..255, u16 values as numbers in     *)
(* 0..65535 with explicit wrap-around.                                     *)
(***************************************************************************)
EXTENDS Integers, Sequences, FiniteSets, TLC

VARIABLES
    \* ---- codec harness (CodecSpec) ----
    cin,            \* the input under test: a Message or a raw frame
    cop,            \* the codec operation applied last ("init" before any)
    cout,           \* its result
    \* ---- Client (client.rs:35-38) ----
    msg_id,         \* Client.msg_id : u16
    reader,         \* Client.reader : Option<BufReader<T>>, its unread bytes
    \* ---- Blynk (lib.rs:159-170) ----
    conn_state,     \* Blynk.conn_state
    handler,        \* Blynk.handler : Option<E>
    last_rcv_time,  \* age in ms of Blynk.last_rcv_time (what .elapsed() returns)
    last_ping_time, \* age in ms of Blynk.last_ping_time
    last_send_time, \* age in ms of Blynk.last_send_time
    \* ---- environment ----
    build,          \* the build: variant (blocking/async) and overflow checks
    net,            \* the transport the reader wraps: shut down? peer closed?
    crashed,        \* the process has panicked
    \* ---- observation ----
    silent,         \* ms since bytes were last received from the transport
    pc,             \* "idle", or "done" right after an operation
    last            \* the operation performed last: its input, what it did

vars == <<cin, cop, cout, msg_id, reader, conn_state, handler, last_rcv_time,
          last_ping_time, last_send_time, build, net, crashed, silent, pc, last>>

codecVars == <<cin, cop, cout>>

sessionVars == <<msg_id, reader, conn_state, handler, last_rcv_time,
                 last_ping_time, last_send_time, build, net, crashed, silent,
                 pc, last>>

-----------------------------------------------------------------------------
(* Widths and options                                                      *)

\* 2^16: ids, sizes and status codes are u16
U16 == 65536

\* Option::None for the u16-valued options (outside the u16 range)
None == -1

Byte == 0..255

RECURSIVE SeqsUpTo(_, _)
\* every sequence over S of length at most n
SeqsUpTo(S, n) ==
    IF n = 0 THEN {<<>>}
    ELSE LET shorter == SeqsUpTo(S, n - 1)
         IN shorter \cup {Append(s, x) : s \in {t \in shorter : Len(t) = n - 1}, x \in S}

-----------------------------------------------------------------------------
(* message.rs: MessageType, ProtocolStatus                                 *)

Rsp == 0
Login == 2
Ping == 6
Tweet == 12
Email == 13
Notify == 14
Bridge == 15
HwSync == 16
Internal == 17
Property == 19
Hw == 20
Redirect == 41

MessageType == {Rsp, Login, Ping, Tweet, Email, Notify, Bridge, HwSync,
                Internal, Property, Hw, Redirect}

StatusInvalidToken == 9
StatusNoData == 17
StatusOk == 200
VpinMaxNum == 32

ProtocolStatus == {StatusInvalidToken, StatusNoData, StatusOk, VpinMaxNum}

\* ProtocolHeader, fmt "!BHH": one u8 and two big-endian u16
ProtocolHeaderSIZE == 5

\* Message::new
Message(mtype, id, size, status, body) ==
    [mtype |-> mtype, id |-> id, size |-> size, status |-> status, body |-> body]

\* ProtocolHeader::write_to((u8, u16, u16), buffer)
write_to(t, id, value) ==
    <<t, id \div 256, id % 256, value \div 256, value % 256>>

\* ProtocolHeader::read_from: the three fields of the first 5 bytes
read_from(bytes) ==
    [mtype |-> bytes[1],
     id    |-> bytes[2] * 256 + bytes[3],
     value |-> bytes[4] * 256 + bytes[5]]

RECURSIVE join(_)
\* [String]::join("\0"), as bytes
join(body) ==
    IF Len(body) = 0 THEN <<>>
    ELSE IF Len(body) = 1 THEN body[1]
    ELSE body[1] \o <<0>> \o join(Tail(body))

RECURSIVE SplitNoEmpty(_)
\* a split that yields no field for the empty string
SplitNoEmpty(bytes) ==
    IF Len(bytes) = 0 THEN <<>>
    ELSE IF \A i \in 1..Len(bytes) : bytes[i] # 0 THEN <<bytes>>
    ELSE LET k == CHOOSE i \in 1..Len(bytes) :
                      bytes[i] = 0 /\ \A j \in 1..(i - 1) : bytes[j] # 0
         IN <<SubSeq(bytes, 1, k - 1)>>
                \o SplitNoEmpty(SubSeq(bytes, k + 1, Len(bytes)))

RECURSIVE split(_)
\* str::split('\0'): always at least one field
split(bytes) ==
    IF \A i \in 1..Len(bytes) : bytes[i] # 0 THEN <<bytes>>
    ELSE LET k == CHOOSE i \in 1..Len(bytes) :
                      bytes[i] = 0 /\ \A j \in 1..(i - 1) : bytes[j] # 0
         IN <<SubSeq(bytes, 1, k - 1)>> \o split(SubSeq(bytes, k + 1, Len(bytes)))

RECURSIVE from_utf8(_)
\* String::from_utf8 succeeds: one-byte and two-byte UTF-8 sequences are
\* recognised, every other lead byte (the byte alphabets of this model hold
\* 0xFF as the only one) is invalid
from_utf8(bytes) ==
    IF Len(bytes) = 0 THEN TRUE
    ELSE IF bytes[1] < 128 THEN from_utf8(Tail(bytes))
    ELSE IF bytes[1] >= 194 /\ bytes[1] <= 223
         THEN /\ Len(bytes) >= 2
              /\ bytes[2] >= 128 /\ bytes[2] <= 191
              /\ from_utf8(SubSeq(bytes, 3, Len(bytes)))
    ELSE FALSE

\* a serialize that also puts a separator after the last field
SerializeTrailingSep(m) ==
    LET data == join(m.body) \o (IF Len(m.body) = 0 THEN <<>> ELSE <<0>>)
    IN write_to(m.mtype, m.id, Len(data) % U16) \o data

\* Message::serialize (`data.len() as u16` keeps the low 16 bits)
serialize(m) ==
    LET data == join(m.body)
    IN write_to(m.mtype, m.id, Len(data) % U16) \o data

\* results of fallible operations: Ok(v), Err(e), or a panic
Ok(v) == [tag |-> "Ok", val |-> v]
Err(e) == [tag |-> "Err", err |-> e]
Panic(why) == [tag |-> "Panic", err |-> why]

\* the errors Message::deserilize returns (boxed, named here by their origin)
ErrHeaderRead == "ProtocolHeader::read_from"
ErrMsgIdZero == "Invalid msg_id = 0"
ErrTryFromType == "MessageType::try_from"
ErrFromUtf8 == "String::from_utf8"

\* a decoding that treats a type code outside the enumeration like an
\* enumerated type it has no arm for
DecodeUnknownPanics(h, rest) ==
    IF h.mtype \in {Rsp, Ping}
    THEN IF h.value \in ProtocolStatus
         THEN Ok(Message(h.mtype, h.id, None, h.value, <<>>))
         ELSE Panic("Incorrect response status")
    ELSE IF h.mtype \in {Hw, Bridge, Internal, Redirect}
         THEN IF Len(rest) < h.value THEN Panic("range end index out of range")
              ELSE LET raw == SubSeq(rest, 1, h.value)
                   IN IF from_utf8(raw)
                      THEN Ok(Message(h.mtype, h.id, h.value, None, split(raw)))
                      ELSE Err(ErrFromUtf8)
    ELSE Panic("Unknown message type")

\* Message::deserilize after the msg_id check: type conversion and the match
decode_typed(h, rest) ==
    IF h.mtype \notin MessageType THEN Err(ErrTryFromType)
    ELSE IF h.mtype \in {Rsp, Ping}
         THEN IF h.value \in ProtocolStatus
              THEN Ok(Message(h.mtype, h.id, None, h.value, <<>>))
              ELSE Panic("Incorrect response status")
    ELSE IF h.mtype \in {Hw, Bridge, Internal, Redirect}
         THEN IF Len(rest) < h.value THEN Panic("range end index out of range")
              ELSE LET raw == SubSeq(rest, 1, h.value)
                   IN IF from_utf8(raw)
                      THEN Ok(Message(h.mtype, h.id, h.value, None, split(raw)))
                      ELSE Err(ErrFromUtf8)
    ELSE Panic("Unknown message type")

\* a deserilize that checks the type before the id
DeserilizeTypeFirst(bytes) ==
    IF Len(bytes) < ProtocolHeaderSIZE THEN Err(ErrHeaderRead)
    ELSE LET h == read_from(bytes)
         IN IF h.mtype \notin MessageType THEN Err(ErrTryFromType)
            ELSE IF h.id = 0 THEN Err(ErrMsgIdZero)
            ELSE decode_typed(h, SubSeq(bytes, ProtocolHeaderSIZE + 1, Len(bytes)))

\* a deserilize that drops the empty field a trailing separator leaves
DeserilizeDropEmptyTail(bytes) ==
    IF Len(bytes) < ProtocolHeaderSIZE THEN Err(ErrHeaderRead)
    ELSE LET h == read_from(bytes)
             r == decode_typed(h, SubSeq(bytes, ProtocolHeaderSIZE + 1, Len(bytes)))
         IN IF h.id = 0 THEN Err(ErrMsgIdZero)
            ELSE IF r.tag = "Ok" /\ Len(r.val.body) > 1
                               /\ r.val.body[Len(r.val.body)] = <<>>
                 THEN Ok([r.val EXCEPT !.body = SubSeq(@, 1, Len(@) - 1)])
            ELSE r

\* Message::deserilize
deserilize(bytes) ==
    IF Len(bytes) < ProtocolHeaderSIZE THEN Err(ErrHeaderRead)
    ELSE LET h == read_from(bytes)
         IN IF h.id = 0 THEN Err(ErrMsgIdZero)
            ELSE decode_typed(h, SubSeq(bytes, ProtocolHeaderSIZE + 1, Len(bytes)))

-----------------------------------------------------------------------------
(* lib.rs: conf                                                            *)

SOCK_MAX_TIMEOUT == 5000
RETRIES_TX_MAX_NUM == 3
RECONNECT_SLEEP == 1000
HEARTBEAT_PERIOD == 5000

\* the inbound buffer size set_heartbeat advertises
RCV_BUFFER == 1024

\* the read timeout read_response sets, in ms
READ_POLL == 5

-----------------------------------------------------------------------------
(* Strings of the protocol, as bytes                                       *)

S_vw == <<118, 119>>
S_vr == <<118, 114>>
S_ver == <<118, 101, 114>>
S_buff_in == <<98, 117, 102, 102, 45, 105, 110>>
S_h_beat == <<104, 45, 98, 101, 97, 116>>
S_dev == <<100, 101, 118>>
S_rust == <<114, 117, 115, 116>>

\* env!("CARGO_PKG_VERSION"): set by the package manifest; the text "0.3.0"
\* stands for it
CARGO_PKG_VERSION == <<48, 46, 51, 46, 48>>

\* Config.token, the text "abc" of the tests
Token == <<97, 98, 99>>

RECURSIVE to_string(_)
\* u8/u16/u64 ::to_string: decimal digits, no padding
to_string(n) ==
    IF n < 10 THEN <<48 + n>> ELSE to_string(n \div 10) \o <<48 + (n % 10)>>

RECURSIVE digits_u8(_, _)
\* the digit loop of u8::from_str: None on a non-digit or on overflow
digits_u8(s, acc) ==
    IF Len(s) = 0 THEN acc
    ELSE IF s[1] < 48 \/ s[1] > 57 THEN None
    ELSE LET v == acc * 10 + (s[1] - 48)
         IN IF v > 255 THEN None ELSE digits_u8(Tail(s), v)

\* str::parse::<u8>: an optional '+', then at least one digit; None on error
parse_u8(s) ==
    IF Len(s) = 0 THEN None
    ELSE LET d == IF s[1] = 43 THEN Tail(s) ELSE s
         IN IF Len(d) = 0 THEN None ELSE digits_u8(d, 0)

-----------------------------------------------------------------------------
(* The state the operations work on, as one record: the variables, the     *)
(* events of the operation so far (trace), and what the environment does   *)
(* during the operation: the outcomes of the next write/flush attempts     *)
(* (script) and what arrives before each read from the socket (feed).      *)

\* an observable event of an operation
Ev(e, n, data) == [e |-> e, n |-> n, data |-> data]

emit(w, ev) == [w EXCEPT !.trace = Append(@, ev)]

\* "let v be x in F(v)", x evaluated once
With(x, F(_)) == CHOOSE y \in {F(v) : v \in {x}} : TRUE

\* an operation's outcome: the state it leaves and the value it returns
R(w, res) == [w |-> w, res |-> res]

\* a panic: the process is gone
crash(w, why) == R([w EXCEPT !.crashed = TRUE], Panic(why))

\* a read that waits for the socket
Pending == [tag |-> "Pending", err |-> "waiting for the peer"]

\* the model's clock saturates here (above every threshold of the code)
MaxAge == 2 * HEARTBEAT_PERIOD

Min(a, b) == IF a < b THEN a ELSE b

\* d ms pass
advance(w, d) ==
    [w EXCEPT !.last_rcv_time = Min(@ + d, MaxAge),
              !.last_ping_time = Min(@ + d, MaxAge),
              !.last_send_time = Min(@ + d, MaxAge),
              !.silent = Min(@ + d, MaxAge)]

\* the clock's resolution
Resolution == HEARTBEAT_PERIOD \div 2

\* an operation takes ms: whole ticks of the clock pass. The 5 ms poll, the
\* 2 ms retry delay and the 1 s sleep that ends disconnect() are below the
\* resolution: no decision of the code reads the clock before the next
\* connect() has reset it or Tick has moved it.
elapse(w, ms) == advance(w, (ms \div Resolution) * Resolution)

\* what the environment does before a read from the socket
Data(bytes) == [k |-> "data", bytes |-> bytes]
Eof == [k |-> "eof", bytes |-> <<>>]
Nothing == [k |-> "none", bytes |-> <<>>]

-----------------------------------------------------------------------------
(* client.rs / async_impl/client.rs: Client and Protocol                   *)

\* Client.reader: None, or Some(BufReader) holding the bytes read from the
\* stream and not yet consumed
NoReader == [some |-> FALSE, buf |-> <<>>]
SomeReader(buf) == [some |-> TRUE, buf |-> buf]

\* Client::msg_id: `self.msg_id += 1` on a u16 panics at 65535 in a build
\* with overflow checks and wraps to 0 in one without
Client_msg_id(w) ==
    IF w.msg_id + 1 < U16
    THEN R([w EXCEPT !.msg_id = @ + 1], Ok(w.msg_id + 1))
    ELSE IF w.build.overflow_checks
         THEN crash(w, "attempt to add with overflow")
         ELSE R([w EXCEPT !.msg_id = 0], Ok(0))

\* the outcome of the next write+flush attempt: a stream that was shut down
\* refuses every write; otherwise the environment decides (default: success)
next_outcome(w) ==
    IF ~w.net.up THEN "werr"
    ELSE IF Len(w.script) = 0 THEN "ok"
    ELSE Head(w.script)

RECURSIVE send_loop(_, _, _)
\* the while loop of Protocol::send
\*   "werr":  write fails
\*   "ferr":  write accepts the message, flush fails
\*   "short": write accepts all but the last byte (its count is ignored)
\*   "ok":    write accepts the message, flush succeeds
\*   "slow":  the socket is not writable before the timer that run() races
\*            against read_response has fired: the pending write is dropped
\*            with the future; where no timer is armed the write waits and
\*            then goes as "ok"
send_loop(w, msg, retries) ==
    IF retries = 0 THEN R(w, Err("MessageSend"))
    ELSE With([w EXCEPT !.script = IF Len(@) = 0 \/ ~w.net.up THEN @ ELSE Tail(@)],
              LAMBDA w1 :
         CASE next_outcome(w) = "werr" ->
                send_loop(emit(w1, Ev("write_err", 0, <<>>)), msg, retries - 1)
           [] next_outcome(w) = "ferr" ->
                send_loop(emit(emit(w1, Ev("write", 0, <<msg>>)),
                               Ev("flush_err", 0, <<>>)), msg, retries - 1)
           [] next_outcome(w) = "slow" /\ w.timer ->
                R(emit(w1, Ev("write_pending", 0, <<msg>>)), Pending)
           [] next_outcome(w) = "short" ->
                R(emit(emit(w1, Ev("write", 0, <<SubSeq(msg, 1, Len(msg) - 1)>>)),
                       Ev("flush", 0, <<>>)), Ok(0))
           [] OTHER ->
                R(emit(emit(w1, Ev("write", 0, <<msg>>)), Ev("flush", 0, <<>>)), Ok(0)))

\* Protocol::send
send(w, msg) ==
    IF ~w.reader.some THEN R(w, Err("StreamIsNone"))
    ELSE With(w, LAMBDA w0 : With(msg, LAMBDA bytes :
              send_loop(w0, bytes, RETRIES_TX_MAX_NUM)))

\* the verbs that allocate an id: Message::new(mtype, self.msg_id(), None,
\* None, body) and send(msg.serialize())
originate(w, mtype, body) ==
    With(Client_msg_id(w), LAMBDA i :
         IF i.res.tag # "Ok" THEN i
         ELSE send(i.w, serialize(Message(mtype, i.res.val, None, None, body))))

login(w, token) == originate(w, Login, <<token>>)

heartbeat(w, hb_ms, rcv_buffer) ==
    originate(w, Internal,
              <<S_ver, CARGO_PKG_VERSION, S_buff_in, to_string(rcv_buffer),
                S_h_beat, to_string(hb_ms \div 1000), S_dev, S_rust>>)

ping(w) == originate(w, Ping, <<>>)

\* a response that takes a fresh id
ResponseFreshId(w, status, id) == originate(w, Rsp, <<to_string(status)>>)

\* Protocol::response: the id is the caller's, the status goes into the body
response(w, status, id) ==
    send(w, serialize(Message(Rsp, id, None, None, <<to_string(status)>>)))

virtual_write(w, v_pin, val) == originate(w, Hw, <<S_vw, to_string(v_pin), val>>)

\* Protocol::virtual_sync: from_digit(x, 10).unwrap() panics on x >= 10,
\* before the id is taken
virtual_sync(w, pins) ==
    IF \E i \in 1..Len(pins) : pins[i] >= 10
    THEN crash(w, "called Option::unwrap() on a None value")
    ELSE originate(w, HwSync, <<S_vr, [i \in 1..Len(pins) |-> 48 + pins[i]]>>)

email(w, to, subject, body) == originate(w, Email, <<to, subject, body>>)

tweet(w, msg) == originate(w, Tweet, <<msg>>)

notify(w, msg) == originate(w, Notify, <<msg>>)

set_property(w, pin, prop, val) == originate(w, Property, <<to_string(pin), prop, val>>)

internal(w, data) == originate(w, Internal, data)

\* BufReader::fill_buf: the unread bytes; when there are none, one read from
\* the socket. Returns the state and Ok(chunk), Err("Io") or Pending; the
\* trace records the chunk returned, or the failure.
fill_buf(w) ==
    IF Len(w.reader.buf) > 0
    THEN R(emit(w, Ev("fill_buf", 0, <<w.reader.buf>>)), Ok(w.reader.buf))
    ELSE LET a == IF Len(w.feed) = 0 THEN Nothing ELSE Head(w.feed)
             w1 == [w EXCEPT !.feed = IF Len(@) = 0 THEN @ ELSE Tail(@)]
         IN IF ~w.net.up \/ w.net.eof
            THEN R(emit(w, Ev("fill_buf", 0, << <<>> >>)), Ok(<<>>))
            ELSE IF a.k = "data" /\ Len(a.bytes) > 0
                 THEN R(emit([w1 EXCEPT !.reader.buf = a.bytes, !.silent = 0],
                             Ev("fill_buf", 0, <<a.bytes>>)), Ok(a.bytes))
            ELSE IF a.k = "eof"
                 THEN R(emit([w1 EXCEPT !.net.eof = TRUE],
                             Ev("fill_buf", 0, << <<>> >>)), Ok(<<>>))
            ELSE IF w.build.variant = "blocking" /\ w.net.rto # None
                 THEN R(emit(elapse(w1, w.net.rto), Ev("fill_buf_err", 0, <<>>)),
                        Err("Io"))
            ELSE R(w1, Pending)

\* a read that decodes an empty chunk instead of reporting it
ReadNoEmptyCheck(w) ==
    IF ~w.reader.some THEN R(w, Err("ReaderNotAvailable"))
    ELSE With(fill_buf(w), LAMBDA f :
         IF f.res.tag # "Ok" THEN f
         ELSE With(deserilize(f.res.val), LAMBDA d :
              IF d.tag = "Panic" THEN crash(f.w, d.err)
              ELSE R(f.w, d)))

\* a read that takes the whole chunk whatever the frame's length
ReadConsumeAll(w) ==
    IF ~w.reader.some THEN R(w, Err("ReaderNotAvailable"))
    ELSE With(fill_buf(w), LAMBDA f :
         IF f.res.tag # "Ok" THEN f
         ELSE IF Len(f.res.val) = 0 THEN R(f.w, Err("EmptyBuffer"))
         ELSE With(deserilize(f.res.val), LAMBDA d :
              IF d.tag = "Panic" THEN crash(f.w, d.err)
              ELSE IF d.tag = "Err" THEN R(f.w, d)
              ELSE R([f.w EXCEPT !.reader.buf = <<>>], d)))

\* a read that drops the chunk it could not decode
ReadSkipUndecodable(w) ==
    IF ~w.reader.some THEN R(w, Err("ReaderNotAvailable"))
    ELSE With(fill_buf(w), LAMBDA f :
         IF f.res.tag # "Ok" THEN f
         ELSE IF Len(f.res.val) = 0 THEN R(f.w, Err("EmptyBuffer"))
         ELSE With(deserilize(f.res.val), LAMBDA d :
              IF d.tag = "Panic" THEN crash(f.w, d.err)
              ELSE IF d.tag = "Err" THEN R([f.w EXCEPT !.reader.buf = <<>>], d)
              ELSE LET size == IF d.val.size = None THEN 0 ELSE d.val.size
                       n == Min(ProtocolHeaderSIZE + size, Len(f.res.val))
                   IN R([f.w EXCEPT !.reader.buf =
                             SubSeq(f.res.val, n + 1, Len(f.res.val))], d)))

\* Protocol::read
read(w) ==
    IF ~w.reader.some THEN R(w, Err("ReaderNotAvailable"))
    ELSE With(fill_buf(w), LAMBDA f :
         IF f.res.tag # "Ok" THEN f
         ELSE IF Len(f.res.val) = 0 THEN R(f.w, Err("EmptyBuffer"))
         ELSE With(deserilize(f.res.val), LAMBDA d :
              IF d.tag = "Panic" THEN crash(f.w, d.err)
              ELSE IF d.tag = "Err" THEN R(f.w, d)
              ELSE LET size == IF d.val.size = None THEN 0 ELSE d.val.size
                       n == Min(ProtocolHeaderSIZE + size, Len(f.res.val))
                   IN R([f.w EXCEPT !.reader.buf =
                             SubSeq(f.res.val, n + 1, Len(f.res.val))], d)))

\* Client::set_read_timeout: the blocking client sets it on the stream, the
\* async client ignores it
set_read_timeout(w, ms) ==
    IF w.build.variant = "blocking" /\ w.reader.some
    THEN [w EXCEPT !.net.rto = ms]
    ELSE w

\* a Client::disconnect that keeps the id counter
ClientDisconnectKeepId(w) ==
    IF w.build.variant = "blocking" /\ w.reader.some
    THEN emit([w EXCEPT !.net.up = FALSE], Ev("shutdown", 0, <<>>))
    ELSE w

\* Client::disconnect: the blocking client shuts the stream down, the async
\* client drops a reference to it; both keep the reader
Client_disconnect(w) ==
    LET w1 == IF w.build.variant = "blocking" /\ w.reader.some
              THEN emit([w EXCEPT !.net.up = FALSE], Ev("shutdown", 0, <<>>))
              ELSE w
    IN [w1 EXCEPT !.msg_id = 0]

-----------------------------------------------------------------------------
(* The event handlers: DefaultHandler (lib.rs:94-95) does nothing;         *)
(* EventsHandler (main.rs) answers reads of pins 4 and 5.                  *)

\* the value main.rs's handle_vpin_read writes: "V<pin> <seconds>", the
\* seconds of the handler's own clock taken as 0
pin_value(pin) == <<86>> \o to_string(pin) \o <<32>> \o to_string(0)

\* hook.handle_*: the invocation is recorded, then the handler's body runs
invoke(w, name, pin, data) ==
    IF w.handler = "EventsHandler" /\ name = "handle_vpin_read" /\ pin \in {4, 5}
    THEN With(virtual_write(emit(w, Ev(name, pin, data)), pin, pin_value(pin)),
              LAMBDA r : IF r.res.tag \in {"Panic", "Pending"} THEN r ELSE R(r.w, Ok(0)))
    ELSE R(emit(w, Ev(name, pin, data)), Ok(0))

-----------------------------------------------------------------------------
(* lib.rs / async_impl/mod.rs: Blynk                                       *)

\* Blynk::client: taking the client stamps last_send_time
client(w) == [w EXCEPT !.last_send_time = 0]

\* a disconnect that does not tell the handler
DisconnectNoHook(w) ==
    With(Client_disconnect(w),
         LAMBDA w2 :
         elapse(emit([w2 EXCEPT !.conn_state = "Disconnected"],
                     Ev("sleep", RECONNECT_SLEEP, <<>>)), RECONNECT_SLEEP))

\* a disconnect that leaves the connection state as it finds it
DisconnectKeepState(w) ==
    With(Client_disconnect(IF w.handler # "None"
                           THEN emit(w, Ev("handle_disconnect", 0, <<>>)) ELSE w),
         LAMBDA w2 :
         elapse(emit(w2, Ev("sleep", RECONNECT_SLEEP, <<>>)), RECONNECT_SLEEP))

\* Blynk::disconnect
disconnect(w) ==
    With(Client_disconnect(IF w.handler # "None"
                           THEN emit(w, Ev("handle_disconnect", 0, <<>>)) ELSE w),
         LAMBDA w2 :
         elapse(emit([w2 EXCEPT !.conn_state = "Disconnected"],
                     Ev("sleep", RECONNECT_SLEEP, <<>>)), RECONNECT_SLEEP))

\* a dispatcher that routes every "vw"/"vr" body to handle_vpin_write
ProcessWriteOnly(w, msg) ==
    IF w.handler # "None" /\ msg.mtype \in {Hw, Bridge} /\ Len(msg.body) >= 2
       /\ msg.body[1] \in {S_vw, S_vr} /\ parse_u8(msg.body[2]) # None
    THEN invoke(w, "handle_vpin_write", parse_u8(msg.body[2]),
                <<IF Len(msg.body) >= 3 THEN msg.body[3] ELSE <<>> >>)
    ELSE R(w, Ok(0))

\* a dispatcher that routes "vw" and "vr" bodies whatever their length
ProcessAnyLength(w, msg) ==
    With(IF msg.mtype = Ping THEN response(w, StatusOk, msg.id) ELSE R(w, Ok(0)),
         LAMBDA p :
    IF p.res.tag # "Ok" THEN p
    ELSE IF p.w.handler = "None" THEN R(p.w, Ok(0))
    ELSE IF msg.mtype = Internal
         THEN IF Len(msg.body) < 1
              THEN crash(p.w, "range start index 1 out of range")
              ELSE invoke(p.w, "handle_internal", 0, SubSeq(msg.body, 2, Len(msg.body)))
    ELSE IF msg.mtype \in {Hw, Bridge} /\ Len(msg.body) >= 2
            /\ msg.body[1] \in {S_vw, S_vr}
         THEN IF parse_u8(msg.body[2]) = None
              THEN crash(p.w, "called Result::unwrap() on an Err value")
              ELSE IF msg.body[1] = S_vw
                   THEN invoke(p.w, "handle_vpin_write", parse_u8(msg.body[2]),
                               <<IF Len(msg.body) >= 3 THEN msg.body[3] ELSE <<>> >>)
                   ELSE invoke(p.w, "handle_vpin_read", parse_u8(msg.body[2]), <<>>)
    ELSE R(p.w, Ok(0)))

\* Blynk::process
process(w, msg) ==
    With(IF msg.mtype = Ping THEN response(w, StatusOk, msg.id) ELSE R(w, Ok(0)),
         LAMBDA p :
    IF p.res.tag # "Ok" THEN p
    ELSE IF p.w.handler = "None" THEN R(p.w, Ok(0))
    ELSE IF msg.mtype = Internal
         THEN IF Len(msg.body) < 1
              THEN crash(p.w, "range start index 1 out of range")
              ELSE invoke(p.w, "handle_internal", 0, SubSeq(msg.body, 2, Len(msg.body)))
    ELSE IF msg.mtype \in {Hw, Bridge}
         THEN IF Len(msg.body) >= 3 /\ msg.body[1] = S_vw
              THEN IF parse_u8(msg.body[2]) = None
                   THEN crash(p.w, "called Result::unwrap() on an Err value")
                   ELSE invoke(p.w, "handle_vpin_write", parse_u8(msg.body[2]),
                               <<msg.body[3]>>)
              ELSE IF Len(msg.body) = 2 /\ msg.body[1] = S_vr
              THEN IF parse_u8(msg.body[2]) = None
                   THEN crash(p.w, "called Result::unwrap() on an Err value")
                   ELSE invoke(p.w, "handle_vpin_read", parse_u8(msg.body[2]), <<>>)
              ELSE R(p.w, Ok(0))
    ELSE R(p.w, Ok(0)))

\* Blynk::read_response. A read that waits for the socket ends with the
\* blocking client's timeout (fill_buf) or, in the async variant, is dropped
\* when the timer of run() fires.
read_response(w) ==
    With(read(emit(set_read_timeout([w EXCEPT !.last_rcv_time = 0], READ_POLL),
                   Ev("read", 0, <<>>))),
         LAMBDA r :
    IF r.res.tag = "Ok"
    THEN With(process(r.w, r.res.val),
              LAMBDA p : IF p.res.tag = "Panic" THEN p ELSE R(p.w, Ok(0)))
    ELSE IF r.res.tag = "Panic" THEN r
    ELSE R(r.w, Ok(0)))

\* an is_server_alive that pings whenever the last ping is older than a
\* tenth of the heartbeat period, whatever was sent or received since
IsServerAlivePingDeltaOnly(w) ==
    LET hbeat_ms == HEARTBEAT_PERIOD
        rcv_delta == w.last_rcv_time
        ping_delta == w.last_ping_time
        send_delta == w.last_send_time
        seen == Ev("is_server_alive", 0, <<<<rcv_delta, ping_delta, send_delta>>>>)
    IN IF rcv_delta > hbeat_ms + (hbeat_ms \div 2)
       THEN R(emit(w, seen), Ok(FALSE))
       ELSE IF ping_delta > hbeat_ms \div 10
            THEN With(ping(client(emit(w, seen))),
                      LAMBDA r :
                      IF r.res.tag = "Panic" THEN r
                      ELSE IF r.res.tag # "Ok" THEN R(r.w, Ok(FALSE))
                      ELSE R([r.w EXCEPT !.last_ping_time = 0], Ok(TRUE)))
       ELSE R(emit(w, seen), Ok(TRUE))

\* Blynk::is_server_alive: Ok(TRUE), Ok(FALSE), or a panic of ping(); the
\* event records the three deltas the function computed
is_server_alive(w) ==
    LET hbeat_ms == HEARTBEAT_PERIOD
        rcv_delta == w.last_rcv_time
        ping_delta == w.last_ping_time
        send_delta == w.last_send_time
        seen == Ev("is_server_alive", 0, <<<<rcv_delta, ping_delta, send_delta>>>>)
    IN IF rcv_delta > hbeat_ms + (hbeat_ms \div 2)
       THEN R(emit(w, seen), Ok(FALSE))
       ELSE IF ping_delta > hbeat_ms \div 10 /\ (send_delta > hbeat_ms \/ rcv_delta > hbeat_ms)
            THEN With(ping(client(emit(w, seen))),
                      LAMBDA r :
                      IF r.res.tag = "Panic" THEN r
                      ELSE IF r.res.tag # "Ok" THEN R(r.w, Ok(FALSE))
                      ELSE R([r.w EXCEPT !.last_ping_time = 0], Ok(TRUE)))
       ELSE R(emit(w, seen), Ok(TRUE))

\* an authenticate that accepts a login reply whatever its status
AuthenticateAnyStatus(w, token) ==
    With(login(client([w EXCEPT !.conn_state = "Authentiacting"]), token), LAMBDA s :
    IF s.res.tag # "Ok" THEN s
    ELSE With(read(emit(s.w, Ev("read", 0, <<>>))), LAMBDA r :
         IF r.res.tag \in {"Panic", "Pending"} THEN r
         ELSE IF r.res.tag = "Err"
              THEN crash(r.w, "called Result::unwrap() on an Err value")
         ELSE IF r.res.val.status = None
              THEN crash(r.w, "called Option::unwrap() on a None value")
         ELSE R([r.w EXCEPT !.conn_state = "Authenticated"], Ok(0))))

\* Blynk::authenticate
authenticate(w, token) ==
    With(login(client([w EXCEPT !.conn_state = "Authentiacting"]), token), LAMBDA s :
    IF s.res.tag # "Ok" THEN s
    ELSE With(read(emit(s.w, Ev("read", 0, <<>>))), LAMBDA r :
         IF r.res.tag \in {"Panic", "Pending"} THEN r
         ELSE IF r.res.tag = "Err"
              THEN crash(r.w, "called Result::unwrap() on an Err value")
         ELSE LET msg == r.res.val
              IN IF msg.status = StatusOk
                 THEN R([r.w EXCEPT !.conn_state = "Authenticated"], Ok(0))
                 ELSE IF msg.status = None
                      THEN crash(r.w, "called Option::unwrap() on a None value")
                 ELSE IF msg.status = StatusInvalidToken
                      THEN R(r.w, Err("InvalidAuthToken"))
                 ELSE IF msg.mtype = Redirect THEN R(r.w, Err("Redirection"))
                 ELSE crash(r.w, "Critical error")))

\* a set_heartbeat that does not wait for the acknowledgment
SetHeartbeatNoAck(w) ==
    With(heartbeat(client(w), HEARTBEAT_PERIOD, RCV_BUFFER), LAMBDA s :
    IF s.res.tag # "Ok" THEN s
    ELSE R(set_read_timeout(s.w, SOCK_MAX_TIMEOUT), Ok(0)))

\* Blynk::set_heartbeat
set_heartbeat(w) ==
    With(heartbeat(client(w), HEARTBEAT_PERIOD, RCV_BUFFER), LAMBDA s :
    IF s.res.tag # "Ok" THEN s
    ELSE With(read(emit(set_read_timeout(s.w, SOCK_MAX_TIMEOUT), Ev("read", 0, <<>>))),
              LAMBDA r :
         IF r.res.tag # "Ok" THEN r
         ELSE IF r.res.val.status = StatusOk THEN R(r.w, Ok(0))
         ELSE IF r.res.val.status = None
              THEN crash(r.w, "called Option::unwrap() on a None value")
         ELSE R(r.w, Err("HeartbeatSet"))))

\* a connect whose set_stream keeps the bytes the old reader had buffered
ConnectKeepBuffer(w, dial) ==
    LET w1 == [w EXCEPT !.conn_state = "Connecting"]
    IN IF dial \in {"dns_err", "tcp_err"} THEN R(w1, Err("Io"))
       ELSE IF dial = "dns_empty" THEN R(w1, Err("Dns"))
       ELSE With(authenticate(
                     emit([w1 EXCEPT !.reader = SomeReader(w.reader.buf),
                                     !.net = [up |-> TRUE, eof |-> FALSE, rto |-> None]],
                          Ev("open", 0, <<>>)), Token),
                 LAMBDA a :
            IF a.res.tag # "Ok" THEN a
            ELSE With(set_heartbeat(a.w), LAMBDA h :
                 IF h.res.tag # "Ok" THEN h
                 ELSE LET w3 == [h.w EXCEPT !.last_rcv_time = 0]
                      IN R(IF w3.handler # "None"
                           THEN emit(w3, Ev("handle_connect", 0, <<>>))
                           ELSE w3, Ok(0))))

\* Blynk::connect. dial is what name resolution and the TCP connect do:
\* "ok", "dns_err", "dns_empty" or "tcp_err"
connect(w, dial) ==
    LET w1 == [w EXCEPT !.conn_state = "Connecting"]
    IN IF dial \in {"dns_err", "tcp_err"} THEN R(w1, Err("Io"))
       ELSE IF dial = "dns_empty" THEN R(w1, Err("Dns"))
       ELSE With(authenticate(
                     emit([w1 EXCEPT !.reader = SomeReader(<<>>),
                                     !.net = [up |-> TRUE, eof |-> FALSE, rto |-> None]],
                          Ev("open", 0, <<>>)), Token),
                 LAMBDA a :
            IF a.res.tag # "Ok" THEN a
            ELSE With(set_heartbeat(a.w), LAMBDA h :
                 IF h.res.tag # "Ok" THEN h
                 ELSE LET w3 == [h.w EXCEPT !.last_rcv_time = 0]
                      IN R(IF w3.handler # "None"
                           THEN emit(w3, Ev("handle_connect", 0, <<>>))
                           ELSE w3, Ok(0))))

\* the rest of run() once the session is connected, blocking variant
steady_blocking(w) ==
    With(read_response(w), LAMBDA r :
    IF r.res.tag # "Ok" THEN r
    ELSE With(is_server_alive(r.w), LAMBDA al :
         IF al.res.tag # "Ok" THEN al
         ELSE IF ~al.res.val THEN R(disconnect(al.w), Ok(0))
         ELSE R(al.w, Ok(0))))

\* the rest of run() once the session is connected, async variant:
\* read_response() is raced against a 5 ms timer
steady_async(w) ==
    With(is_server_alive(w), LAMBDA al :
    IF al.res.tag # "Ok" THEN al
    ELSE IF ~al.res.val THEN R(disconnect(al.w), Ok(0))
    ELSE With(read_response([al.w EXCEPT !.timer = TRUE]),
              LAMBDA r : R([r.w EXCEPT !.timer = FALSE], r.res)))

\* a run that goes on to the steady part after a failed connect
RunNoReturn(w, dial) ==
    With(IF w.conn_state # "Authenticated" THEN connect(w, dial) ELSE R(w, Ok(0)),
         LAMBDA c :
    IF c.res.tag \in {"Panic", "Pending"} THEN c
    ELSE With(IF c.res.tag = "Err" THEN disconnect(emit(c.w, Ev(c.res.err, 0, <<>>)))
              ELSE c.w,
              LAMBDA w1 :
              IF w.build.variant = "blocking" THEN steady_blocking(w1)
              ELSE steady_async(w1)))

\* Blynk::run; a failed connect is reported (logged) as an event named by
\* its error
run(w, dial) ==
    With(IF w.conn_state # "Authenticated" THEN connect(w, dial) ELSE R(w, Ok(0)),
         LAMBDA c :
    IF c.res.tag \in {"Panic", "Pending"} THEN c
    ELSE IF c.res.tag = "Err"
         THEN R(disconnect(emit(c.w, Ev(c.res.err, 0, <<>>))), Ok(0))
    ELSE IF w.build.variant = "blocking" THEN steady_blocking(c.w)
    ELSE steady_async(c.w))

-----------------------------------------------------------------------------
(* Bounds and inputs                                                       *)

\* codec harness: fields per body, bytes after a frame's header
MaxFields == 3
MaxTail == 3

\* session: ids a connection may use before the model stops it, how far
\* below 2^16 a long-lived counter starts, attempts the environment scripts
MaxMsgId == 5
IdWindow == 3
MaxScript == 3

CodecFields == {<<>>, <<97>>, <<98>>, <<99>>}
CodecIds == {0, 1, 32, 258}
CodecMessages ==
    {Message(t, i, None, None, b) :
        t \in MessageType, i \in CodecIds, b \in SeqsUpTo(CodecFields, MaxFields)}

FrameTypes == {Rsp, Ping, Hw, Bridge, Internal, Redirect, Login, 7}
FrameIds == {0, 1, 258}
FrameValues == {0, 1, 2, 3, StatusOk, StatusInvalidToken}
CodecFrames ==
    {write_to(t, i, v) \o tail :
        t \in FrameTypes, i \in FrameIds, v \in FrameValues,
        tail \in SeqsUpTo({0, 97, 255}, MaxTail) \cup {<<195, 169>>, <<97, 195>>}}
    \cup SeqsUpTo({0, Hw}, ProtocolHeaderSIZE - 1)

NoMessage == Message(Rsp, 0, None, None, <<>>)

CodecInputs ==
    {[kind |-> "msg", msg |-> m, frame |-> <<>>] : m \in CodecMessages}
    \cup {[kind |-> "frame", msg |-> NoMessage, frame |-> f] : f \in CodecFrames}

\* frames a server sends
F_rsp(id, status) == write_to(Rsp, id, status)
F_ping(id, value) == write_to(Ping, id, value)
F_body(mtype, id, body) == serialize(Message(mtype, id, None, None, body))
F_vw == F_body(Hw, 7, <<S_vw, to_string(42), <<104, 105>> >>)
F_vr4 == F_body(Hw, 8, <<S_vr, to_string(4)>>)
F_vr22 == F_body(Bridge, 258, <<S_vr, to_string(22)>>)
F_internal == F_body(Internal, 9, <<<<95>>, <<120>>, <<121>> >>)
F_redirect == F_body(Redirect, 1, <<<<104>>, to_string(80)>>)

LoginReplies ==
    {Data(F_rsp(1, StatusOk)), Data(F_rsp(1, StatusInvalidToken)),
     Data(F_rsp(1, StatusNoData)), Data(F_redirect), Eof,
     Data(F_rsp(1, StatusOk) \o F_rsp(2, StatusOk)),
     Data(F_rsp(1, StatusOk) \o F_vw)}

AckReplies ==
    {Data(F_rsp(2, StatusOk)), Data(F_rsp(2, StatusNoData)), Nothing, Eof}

SteadyArrivals ==
    {Nothing, Eof, Data(F_ping(7, StatusOk)), Data(F_ping(300, 0)),
     Data(F_vw), Data(F_vr4), Data(F_vr22), Data(F_internal),
     Data(F_rsp(3, StatusOk)), Data(write_to(Hw, 0, 0)), Data(write_to(7, 1, 0)),
     Data(F_vw \o F_ping(7, StatusOk)), Data(SubSeq(F_vw, 1, 3)),
     Data(F_body(Hw, 7, <<S_vw, <<120>>, <<49>> >>)),
     Data(write_to(Internal, 9, 0))}

\* what arrives for a read() called on the client directly
ReadArrivals ==
    SteadyArrivals
        \cup {Data(F_redirect), Data(F_rsp(3, StatusOk) \o F_vr22 \o F_internal),
              Data(write_to(255, 258, 3) \o <<97, 98, 99>>),
              Data(write_to(1, 1, StatusOk) \o F_vw), Data(SubSeq(F_vw, 1, 8))}

\* what arrives for the read of the run() that connected
FirstArrivals == {Nothing, Data(F_vr4)}

Dials == {"ok", "dns_err", "dns_empty", "tcp_err"}

Outcomes == {"ok", "werr", "ferr", "short"}
Scripts == SeqsUpTo(Outcomes, MaxScript)

\* the scripts tried with the verbs
CallScripts == {<<>>, <<"werr", "werr", "werr">>, <<"ferr">>}

\* the scripts tried with run()
FewScripts ==
    {<<>>, <<"werr", "werr", "werr">>, <<"ferr", "short">>,
     <<"ok", "ok", "werr", "ferr", "werr">>, <<"slow">>, <<"werr", "slow">>}

HandlerKinds == {"None", "DefaultHandler", "EventsHandler"}

\* messages handed to process() directly, as the tests of lib.rs do
ProcessInputs ==
    {Message(t, i, None, None, b) :
        t \in {Hw, Bridge, Internal, Ping, Rsp, Login, Redirect}, i \in {300},
        b \in {<<>>, <<S_vw>>, <<S_vw, to_string(42)>>, <<S_vr, to_string(22)>>,
               <<S_vr, to_string(4)>>, <<S_vw, to_string(42), <<104>> >>,
               <<S_vw, to_string(5), <<104>>, <<105>> >>,
               <<S_vr, to_string(22), <<104>> >>, <<<<95>>, <<120>>, <<121>> >>,
               <<<<95>> >>, <<S_vw, <<43, 48, 55>>, <<>> >>, <<S_vr, to_string(256)>>}}

-----------------------------------------------------------------------------
(* The codec harness: the input is drawn at the start, an operation of      *)
(* message.rs is applied to it.                                            *)

NoResult == [tag |-> "None", err |-> ""]

CodecIdle == /\ cin = [kind |-> "none", msg |-> NoMessage, frame |-> <<>>]
             /\ cop = "init"
             /\ cout = NoResult

\* msg.serialize()
Serialize ==
    /\ cin.kind = "msg" /\ cop = "init"
    /\ cop' = "serialize"
    /\ cout' = Ok(serialize(cin.msg))
    /\ UNCHANGED <<cin, sessionVars>>

\* Message::deserilize(&frame)
Deserilize ==
    /\ cin.kind = "frame" /\ cop = "init"
    /\ cop' = "deserilize"
    /\ cout' = deserilize(cin.frame)
    /\ UNCHANGED <<cin, sessionVars>>

\* Message::deserilize(&msg.serialize())
RoundTrip ==
    /\ cin.kind = "msg" /\ cop = "init"
    /\ cop' = "roundtrip"
    /\ cout' = deserilize(serialize(cin.msg))
    /\ UNCHANGED <<cin, sessionVars>>

-----------------------------------------------------------------------------
(* The session: Blynk::new, then calls of run(), of process(), of the      *)
(* Protocol methods by the application, and time passing between them.     *)

Builds == [variant : {"blocking", "async"}, overflow_checks : BOOLEAN]

\* Client { msg_id, reader: None }: a new client, or one whose counter is
\* IdWindow sends short of 2^16
StartIds == {0, U16 - IdWindow}

NoOp == [op |-> "none", arg |-> NoMessage, bytes |-> <<>>, pre |-> <<>>,
         res |-> NoResult, trace |-> <<>>]

\* Blynk::new
SessionInit ==
    /\ msg_id \in StartIds
    /\ reader = NoReader
    /\ conn_state = "Disconnected"
    /\ handler = "None"
    /\ last_rcv_time = 0
    /\ last_ping_time = 0
    /\ last_send_time = 0
    /\ build \in Builds
    /\ net = [up |-> FALSE, eof |-> FALSE, rto |-> None]
    /\ crashed = FALSE
    /\ silent = 0
    /\ pc = "idle"
    /\ last = NoOp

\* the state as the record the operations work on
Cur(feed, script) ==
    [msg_id |-> msg_id, reader |-> reader, conn_state |-> conn_state,
     handler |-> handler, last_rcv_time |-> last_rcv_time,
     last_ping_time |-> last_ping_time, last_send_time |-> last_send_time,
     build |-> build, net |-> net, crashed |-> crashed, silent |-> silent,
     trace |-> <<>>, feed |-> feed, script |-> script, timer |-> FALSE]

\* what an operation found when it started
Pre ==
    [msg_id |-> msg_id, reader |-> reader, conn_state |-> conn_state,
     handler |-> handler, last_rcv_time |-> last_rcv_time,
     last_ping_time |-> last_ping_time, last_send_time |-> last_send_time,
     silent |-> silent]

\* the operation op, called with (arg, bytes), ended as r
Done(op, arg, bytes, r) ==
    \E o \in {r} :
        /\ o.res.tag # "Pending"
        /\ msg_id' = o.w.msg_id
        /\ reader' = o.w.reader
        /\ conn_state' = o.w.conn_state
        /\ handler' = o.w.handler
        /\ last_rcv_time' = o.w.last_rcv_time
        /\ last_ping_time' = o.w.last_ping_time
        /\ last_send_time' = o.w.last_send_time
        /\ net' = o.w.net
        /\ crashed' = o.w.crashed
        /\ silent' = o.w.silent
        /\ pc' = "done"
        /\ last' = [op |-> op, arg |-> arg, bytes |-> bytes, pre |-> Pre,
                    res |-> o.res, trace |-> o.w.trace]
        /\ UNCHANGED <<build, codecVars>>

\* an operation may start: nothing is running, the process lives
Idle == pc = "idle" /\ ~crashed

\* the id counter has room (the model stops a connection after MaxMsgId ids)
IdRoom == msg_id < MaxMsgId \/ msg_id >= U16 - IdWindow

\* blynk.run() in a session that is not connected
RunConnect ==
    /\ Idle /\ IdRoom /\ conn_state # "Authenticated"
    /\ \/ \E dial \in Dials \ {"ok"} :
             Done("run", NoMessage, <<>>, run(Cur(<<>>, <<>>), dial))
       \/ \E script \in FewScripts, a1 \in LoginReplies, a2 \in AckReplies,
             a3 \in FirstArrivals :
             Done("run", NoMessage, <<>>, run(Cur(<<a1, a2, a3>>, script), "ok"))

\* blynk.run() in a connected session
RunSteady ==
    /\ Idle /\ IdRoom /\ conn_state = "Authenticated"
    /\ \E script \in FewScripts, a \in SteadyArrivals :
         Done("run", NoMessage, <<>>, run(Cur(<<a>>, script), "ok"))

\* blynk.process(msg), the message drawn at the start
Process ==
    /\ Idle /\ IdRoom /\ cin.kind = "dispatch"
    /\ \E script \in CallScripts :
         Done("process", cin.msg, <<>>, process(Cur(<<>>, script), cin.msg))

\* blynk.set_handler(hook)
SetHandler ==
    /\ Idle
    /\ handler = "None"
    /\ \E h \in HandlerKinds \ {"None"} : handler' = h
    /\ UNCHANGED <<msg_id, reader, conn_state, last_rcv_time, last_ping_time,
                   last_send_time, build, net, crashed, silent, pc, last, codecVars>>

\* the time the driver lets pass between two calls of run()
TickMs == HEARTBEAT_PERIOD + HEARTBEAT_PERIOD \div 2

\* time passes between two calls
Tick ==
    /\ Idle
    /\ Min(Min(last_rcv_time, last_ping_time), Min(last_send_time, silent)) < MaxAge
    /\ LET w == advance(Cur(<<>>, <<>>), TickMs)
       IN /\ last_rcv_time' = w.last_rcv_time
          /\ last_ping_time' = w.last_ping_time
          /\ last_send_time' = w.last_send_time
          /\ silent' = w.silent
    /\ UNCHANGED <<msg_id, reader, conn_state, handler, build, net, crashed, pc,
                   last, codecVars>>

\* the caller has the result and goes on
Continue ==
    /\ pc = "done" /\ ~crashed
    /\ pc' = "idle"
    /\ last' = NoOp
    /\ UNCHANGED <<msg_id, reader, conn_state, handler, last_rcv_time,
                   last_ping_time, last_send_time, build, net, crashed, silent,
                   codecVars>>

-----------------------------------------------------------------------------
(* The Protocol methods, called on the Client directly                     *)

\* client.set_stream(stream)
SetStream ==
    /\ Idle /\ ~reader.some
    /\ Done("set_stream", NoMessage, <<>>,
            R([Cur(<<>>, <<>>) EXCEPT !.reader = SomeReader(<<>>),
                   !.net = [up |-> TRUE, eof |-> FALSE, rto |-> None]], Ok(0)))

\* client.set_read_timeout(duration)
SetReadTimeout ==
    /\ Idle /\ reader.some /\ net.rto = None /\ build.variant = "blocking"
    /\ Done("set_read_timeout", NoMessage, <<>>,
            R(set_read_timeout(Cur(<<>>, <<>>), READ_POLL), Ok(0)))

\* client.disconnect()
ClientDisconnect ==
    /\ Idle
    /\ Done("disconnect", NoMessage, <<>>, R(Client_disconnect(Cur(<<>>, <<>>)), Ok(0)))

\* client.send(bytes)
Send ==
    /\ Idle
    /\ \E bytes \in {F_rsp(1, StatusOk), F_vw}, script \in Scripts :
         Done("send", NoMessage, bytes, send(Cur(<<>>, script), bytes))

\* client.read()
Read ==
    /\ Idle
    /\ \E a \in ReadArrivals :
         Done("read", NoMessage, <<>>, read(Cur(<<a>>, <<>>)))

\* client.response(status, msg_id)
Response ==
    /\ Idle
    /\ \E id \in {1, 42}, script \in FewScripts :
         Done("response", Message(Rsp, id, None, None, <<>>), <<>>,
              response(Cur(<<>>, script), StatusOk, id))

\* client.login(token)
LoginCall ==
    /\ Idle /\ IdRoom
    /\ \E script \in CallScripts :
         Done("login", NoMessage, <<>>, login(Cur(<<>>, script), Token))

\* client.heartbeat(period, rcv_buffer)
HeartbeatCall ==
    /\ Idle /\ IdRoom
    /\ \E script \in CallScripts :
         Done("heartbeat", NoMessage, <<>>,
              heartbeat(Cur(<<>>, script), HEARTBEAT_PERIOD, RCV_BUFFER))

\* client.ping()
PingCall ==
    /\ Idle /\ IdRoom
    /\ \E script \in CallScripts :
         Done("ping", NoMessage, <<>>, ping(Cur(<<>>, script)))

\* client.virtual_write(pin, val)
VirtualWrite ==
    /\ Idle /\ IdRoom
    /\ \E script \in CallScripts, pin \in {5, 255} :
         Done("virtual_write", NoMessage, <<>>,
              virtual_write(Cur(<<>>, script), pin, <<49>>))

\* client.virtual_sync(pins)
VirtualSync ==
    /\ Idle /\ IdRoom
    /\ \E script \in CallScripts, pins \in {<<>>, <<1, 2>>, <<12>>} :
         Done("virtual_sync", NoMessage, <<>>, virtual_sync(Cur(<<>>, script), pins))

\* client.email(to, subject, body)
EmailCall ==
    /\ Idle /\ IdRoom
    /\ \E script \in CallScripts :
         Done("email", NoMessage, <<>>,
              email(Cur(<<>>, script), <<97>>, <<98>>, <<>>))

\* client.tweet(msg)
TweetCall ==
    /\ Idle /\ IdRoom
    /\ \E script \in CallScripts :
         Done("tweet", NoMessage, <<>>, tweet(Cur(<<>>, script), <<97>>))

\* client.notify(msg)
NotifyCall ==
    /\ Idle /\ IdRoom
    /\ \E script \in CallScripts :
         Done("notify", NoMessage, <<>>, notify(Cur(<<>>, script), <<97>>))

\* client.set_property(pin, prop, val)
SetProperty ==
    /\ Idle /\ IdRoom
    /\ \E script \in CallScripts :
         Done("set_property", NoMessage, <<>>,
              set_property(Cur(<<>>, script), 5, <<97>>, <<98>>))

\* client.internal(data)
InternalCall ==
    /\ Idle /\ IdRoom
    /\ \E script \in CallScripts, data \in {<<>>, <<<<97>>, <<98>> >>} :
         Done("internal", NoMessage, <<>>, internal(Cur(<<>>, script), data))

(* Specifications                                                          *)

Init ==
    /\ CodecIdle
    /\ SessionInit
    /\ msg_id = 0
    /\ build.overflow_checks = FALSE

Next ==
    \/ RunConnect
    \/ RunSteady
    \/ SetHandler
    \/ Tick
    \/ Continue

Spec == Init /\ [][Next]_vars

ClientInit == CodecIdle /\ SessionInit

ClientNext ==
    \/ SetStream
    \/ SetReadTimeout
    \/ ClientDisconnect
    \/ Send
    \/ Read
    \/ Response
    \/ LoginCall
    \/ HeartbeatCall
    \/ PingCall
    \/ VirtualWrite
    \/ VirtualSync
    \/ EmailCall
    \/ TweetCall
    \/ NotifyCall
    \/ SetProperty
    \/ InternalCall
    \/ Continue

ClientSpec == ClientInit /\ [][ClientNext]_vars

\* a Blynk as the tests of lib.rs build it (new, not connected), or one in
\* a session, its counter at 2 after the handshake or one short of 2^16
DispatchInit ==
    /\ cin \in {[kind |-> "dispatch", msg |-> m, frame |-> <<>>] : m \in ProcessInputs}
    /\ cop = "init"
    /\ cout = NoResult
    /\ handler \in HandlerKinds
    /\ build \in Builds
    /\ \/ conn_state = "Disconnected" /\ msg_id = 0 /\ reader = NoReader
          /\ net = [up |-> FALSE, eof |-> FALSE, rto |-> None]
       \/ conn_state = "Authenticated" /\ msg_id \in {2, U16 - 1}
          /\ reader = SomeReader(<<>>)
          /\ net = [up |-> TRUE, eof |-> FALSE,
                    rto |-> IF build.variant = "blocking" THEN READ_POLL ELSE None]
    /\ last_rcv_time = 0
    /\ last_ping_time = 0
    /\ last_send_time = 0
    /\ crashed = FALSE
    /\ silent = 0
    /\ pc = "idle"
    /\ last = NoOp

DispatchNext == Process \/ Continue

DispatchSpec == DispatchInit /\ [][DispatchNext]_vars

CodecInit ==
    /\ cin \in CodecInputs
    /\ cop = "init"
    /\ cout = NoResult
    /\ SessionInit
    /\ msg_id = 0
    /\ build = [variant |-> "blocking", overflow_checks |-> FALSE]

CodecNext == Serialize \/ Deserilize \/ RoundTrip

CodecSpec == CodecInit /\ [][CodecNext]_vars

-----------------------------------------------------------------------------
(* Properties of the codec (CodecSpec)                                     *)

BodyTypes == {Hw, Bridge, Internal, Redirect}

\* no field holds the separator
NulFree(body) == \A k \in 1..Len(body) : \A i \in 1..Len(body[k]) : body[k][i] # 0

\* every field is valid UTF-8
Utf8Fields(body) == \A k \in 1..Len(body) : from_utf8(body[k])

\* the round trip reproduced type, id and body of the message it started from
Reproduced ==
    /\ cout.tag = "Ok"
    /\ cout.val.mtype = cin.msg.mtype
    /\ cout.val.id = cin.msg.id
    /\ cout.val.body = cin.msg.body

\* a round trip of a message the framing claim speaks of
RoundTripCase ==
    /\ cop = "roundtrip"
    /\ cin.msg.mtype \in BodyTypes
    /\ cin.msg.id # 0
    /\ NulFree(cin.msg.body)
    /\ Utf8Fields(cin.msg.body)

RECURSIVE FieldOffset(_, _)
\* the bytes of a joined body that precede its field k
FieldOffset(body, k) ==
    IF k = 1 THEN 0 ELSE FieldOffset(body, k - 1) + Len(body[k - 1]) + 1

\* the length of a body joined with one separator between consecutive fields
JoinedLen(body) ==
    IF Len(body) = 0 THEN 0
    ELSE FieldOffset(body, Len(body)) + Len(body[Len(body)])

\* C2: serialize() returns the 5 header bytes [type, id high, id low, length
\* high, length low] followed by the fields, a single 0x00 between
\* consecutive fields and none after the last; an empty body yields the
\* header alone with length 0; Hardware, id 32, body [a, b, c] yields
\* [20, 0, 32, 0, 5] a 0 b 0 c.
C2_SerializeLayout ==
    (cop = "serialize") =>
        LET m == cin.msg
            out == cout.val
            n == JoinedLen(m.body)
        IN /\ cout.tag = "Ok"
           /\ Len(out) = ProtocolHeaderSIZE + n
           /\ out[1] = m.mtype
           /\ out[2] = m.id \div 256 /\ out[3] = m.id % 256
           /\ out[4] = (n \div 256) % 256 /\ out[5] = n % 256
           /\ \A k \in 1..Len(m.body) :
                LET from == ProtocolHeaderSIZE + FieldOffset(m.body, k)
                IN /\ SubSeq(out, from + 1, from + Len(m.body[k])) = m.body[k]
                   /\ k < Len(m.body) => out[from + Len(m.body[k]) + 1] = 0
           /\ Len(m.body) = 0 => out = <<m.mtype, m.id \div 256, m.id % 256, 0, 0>>
           /\ (m.mtype = Hw /\ m.id = 32 /\ m.body = << <<97>>, <<98>>, <<99>> >>)
                => out = <<20, 0, 32, 0, 5, 97, 0, 98, 0, 99>>

\* C2, witness: the Hardware message with id 32 and body [a, b, c] serialized
C2_Witness ==
    /\ cop = "serialize"
    /\ cin.msg.mtype = Hw /\ cin.msg.id = 32
    /\ cin.msg.body = << <<97>>, <<98>>, <<99>> >>
    /\ cout = Ok(<<20, 0, 32, 0, 5, 97, 0, 98, 0, 99>>)

\* a frame of at least 5 bytes whose id field is 0 was decoded
ZeroIdCase ==
    /\ cop = "deserilize"
    /\ Len(cin.frame) >= ProtocolHeaderSIZE
    /\ cin.frame[2] = 0 /\ cin.frame[3] = 0

\* C3: decoding a frame of at least 5 bytes whose header id is 0 fails with
\* the invalid-message-id error and returns no message, whatever the type
\* code (known, unknown, unsupported) and whatever the value field.
C3_ZeroIdRejected == ZeroIdCase => cout = Err(ErrMsgIdZero)

\* C3, witness: type code 7 (unknown), id 0, a value that is no status
C3_Witness ==
    /\ ZeroIdCase
    /\ cin.frame[1] = 7 /\ cin.frame[5] = 3
    /\ cout = Err(ErrMsgIdZero)

-----------------------------------------------------------------------------
(* Properties of the Protocol methods (ClientSpec)                         *)

\* the verbs that take their id from the counter
OriginateOps == {"login", "heartbeat", "ping", "virtual_write", "virtual_sync",
                 "email", "tweet", "notify", "set_property", "internal"}

\* the events named e of the operation performed last
Events(e) == {i \in 1..Len(last.trace) : last.trace[i].e = e}

\* the byte strings the operation performed last handed to the transport
Written == {last.trace[i].data[1] : i \in Events("write")}

\* the id field of a frame's header
FrameId(bytes) == bytes[2] * 256 + bytes[3]

\* The counter is assigned by Client::msg_id and Client::disconnect only, so
\* when a verb starts it holds the id of the previous locally-originated
\* send of the connection (0 when there was none since the client was made
\* or disconnected).
PreviousId == last.pre.msg_id

\* C4 as stated: every frame a locally-originated send writes carries an id
\* strictly greater than the id of the previous locally-originated send, and
\* never id 0.
C4_AsStated ==
    (pc = "done" /\ last.op \in OriginateOps) =>
        \A f \in Written : FrameId(f) > PreviousId /\ FrameId(f) # 0

\* C6: response(status, id) leaves the id counter unchanged, whether the
\* send succeeds or fails, and its frames carry the caller's id; the next
\* locally-originated send uses counter + 1 (below the counter's last
\* value, 2^16 - 1).
C6_ResponseKeepsCounter ==
    /\ (pc = "done" /\ last.op = "response") =>
          /\ msg_id = last.pre.msg_id
          /\ \A f \in Written : FrameId(f) = last.arg.id
    /\ (pc = "done" /\ last.op \in OriginateOps /\ last.pre.msg_id + 1 < U16) =>
          /\ last.res.tag # "Panic" => msg_id = last.pre.msg_id + 1
          /\ \A f \in Written : FrameId(f) = last.pre.msg_id + 1

\* C6, witness: after login and heartbeat (counter 2) a reply with id 42
\* was sent and the counter is 2
C6_Witness ==
    /\ pc = "done" /\ last.op = "response"
    /\ last.pre.msg_id = 2 /\ last.arg.id = 42
    /\ last.res.tag = "Ok" /\ Written # {}
    /\ msg_id = 2

\* a send on a present transport none of whose attempts succeeded, the
\* failures being all of one kind
AllAttemptsFailed ==
    /\ pc = "done" /\ last.op = "send"
    /\ last.pre.reader.some
    /\ Events("flush") = {}
    /\ Events("write_err") = {} \/ Events("flush_err") = {}

\* C9 as stated: when every write (or every flush) fails, send makes exactly
\* RETRIES_TX_MAX_NUM attempts, fails with MessageSendFailed, and no bytes
\* of the message were handed to the transport.
C9_AsStated ==
    AllAttemptsFailed =>
        /\ Cardinality(Events("write_err") \cup Events("flush_err")) = RETRIES_TX_MAX_NUM
        /\ last.res = Err("MessageSend")
        /\ Written = {}

\* the errors of the decoder
DecodeErrors == {ErrHeaderRead, ErrMsgIdZero, ErrTryFromType, ErrFromUtf8}

\* the read left the counter and the buffer as they were
ReadChangedNothing == msg_id = last.pre.msg_id /\ reader = last.pre.reader

\* a read whose fill_buf returned no bytes: the stream is at its end or was
\* shut down
ReadGotNoBytes ==
    /\ pc = "done" /\ last.op = "read"
    /\ \E i \in Events("fill_buf") : last.trace[i].data[1] = <<>>

\* a read on a stream with no bytes to give: at its end, shut down, or idle
\* until the read timeout
ReadFoundNothing ==
    /\ pc = "done" /\ last.op = "read"
    /\ last.pre.reader.some /\ last.pre.reader.buf = <<>>
    /\ \A i \in Events("fill_buf") : last.trace[i].data[1] = <<>>

-----------------------------------------------------------------------------
(* Properties of the dispatcher (DispatchSpec)                             *)

\* the attempts of the operation performed last that failed
FailedAttempts == Events("write_err") \cup Events("flush_err")

\* process(msg) ran for a Ping on a transport that took the first attempt
PingProcessed ==
    /\ pc = "done" /\ last.op = "process"
    /\ last.arg.mtype = Ping
    /\ last.pre.reader.some
    /\ FailedAttempts = {}

\* C5 as stated: for an inbound Ping with id N the dispatcher writes exactly
\* one frame, a Response with id N whose header value field is 200 and
\* which has no body.
C5_AsStated ==
    PingProcessed =>
        /\ Cardinality(Events("write")) = 1
        /\ Written = {write_to(Rsp, last.arg.id, StatusOk)}

\* the invocations of the handler by the operation performed last
HandlerCalls ==
    {i \in 1..Len(last.trace) :
        last.trace[i].e \in {"handle_vpin_write", "handle_vpin_read", "handle_internal",
                             "handle_connect", "handle_disconnect"}}

\* the handler was invoked exactly once, as name(pin, data)
CalledOnce(name, pin, data) ==
    /\ Cardinality(HandlerCalls) = 1
    /\ \A i \in HandlerCalls : last.trace[i] = Ev(name, pin, data)

\* process(msg) ran with a handler installed
Dispatched == pc = "done" /\ last.op = "process" /\ last.pre.handler # "None"

\* C7: with a handler installed, process(msg) for a Hardware or Bridge
\* message with body ["vw", p, v, ...] (at least 3 fields, p a u8) invokes
\* handle_vpin_write(p, v) exactly once and no other handler; for body
\* ["vr", p] it invokes handle_vpin_read(p) exactly once and no other
\* handler; for an Internal message with body [f0, f1, ..., fk] it invokes
\* handle_internal([f1, ..., fk]) exactly once and no other handler.
C7_DispatchRouting ==
    Dispatched =>
        LET m == last.arg
        IN /\ (/\ m.mtype \in {Hw, Bridge} /\ Len(m.body) >= 3
               /\ m.body[1] = S_vw /\ parse_u8(m.body[2]) # None)
                 => CalledOnce("handle_vpin_write", parse_u8(m.body[2]), <<m.body[3]>>)
           /\ (/\ m.mtype \in {Hw, Bridge} /\ Len(m.body) = 2
               /\ m.body[1] = S_vr /\ parse_u8(m.body[2]) # None)
                 => CalledOnce("handle_vpin_read", parse_u8(m.body[2]), <<>>)
           /\ (m.mtype = Internal /\ Len(m.body) >= 1)
                 => CalledOnce("handle_internal", 0, SubSeq(m.body, 2, Len(m.body)))

\* C7, witness: a Bridge message ["vr", "22"] reached handle_vpin_read(22)
C7_Witness ==
    /\ Dispatched
    /\ last.arg.mtype = Bridge
    /\ last.arg.body = <<S_vr, to_string(22)>>
    /\ last.trace = <<Ev("handle_vpin_read", 22, <<>>)>>

-----------------------------------------------------------------------------
(* Properties of the session (Spec)                                        *)

\* run() was entered Authenticated after more than 1.5 heartbeat periods
\* without a byte from the transport, and received none itself
RunAfterSilence ==
    /\ pc = "done" /\ last.op = "run" /\ ~crashed
    /\ last.pre.conn_state = "Authenticated"
    /\ last.pre.silent > HEARTBEAT_PERIOD + HEARTBEAT_PERIOD \div 2
    /\ silent >= last.pre.silent

\* C8 as stated: if the session is Authenticated and no bytes were received
\* for more than 1.5 H = 7.5 s, the next run() ends with the session
\* Disconnected, whatever runs and pings happened during the silence.
C8_AsStated == RunAfterSilence => conn_state = "Disconnected"

-----------------------------------------------------------------------------
(* Properties of read() (ClientSpec)                                       *)

\* the chunk fill_buf handed to the read performed last
ReadChunk == last.trace[CHOOSE i \in Events("fill_buf") : TRUE].data[1]

\* the length of the frame at the front of a chunk: the header, and for the
\* body-bearing types the body length the header states
FrameLen(chunk) ==
    ProtocolHeaderSIZE
        + (IF chunk[1] \in {Rsp, Ping} THEN 0 ELSE chunk[4] * 256 + chunk[5])

\* a read() that returned a message
ReadOk == pc = "done" /\ last.op = "read" /\ last.res.tag = "Ok"

\* C11: a successful read() removes from the front of the read buffer
\* exactly 5 bytes for a Response or Ping frame and exactly 5 + body_len
\* bytes for a Hardware, Bridge, Internal or Redirect frame and leaves every
\* following byte buffered; the message is the one the removed bytes encode;
\* a read() that finds bytes buffered takes them before anything from the
\* socket, so k frames buffered in one chunk are returned by k successive
\* reads in arrival order, none skipped or duplicated.
C11_FrameExact ==
    /\ ReadOk =>
          /\ reader.buf = SubSeq(ReadChunk, FrameLen(ReadChunk) + 1, Len(ReadChunk))
          /\ Len(ReadChunk) = FrameLen(ReadChunk) + Len(reader.buf)
          /\ last.res = deserilize(SubSeq(ReadChunk, 1, FrameLen(ReadChunk)))
    /\ (pc = "done" /\ last.op = "read" /\ last.pre.reader.buf # <<>>) =>
          /\ Events("fill_buf") # {}
          /\ ReadChunk = last.pre.reader.buf

\* C11, witness: of three frames that arrived in one chunk the first had
\* been read; this read returned the second, the Bridge message with id
\* 258, and left the third buffered
C11_Witness ==
    /\ ReadOk
    /\ last.pre.reader.buf = F_vr22 \o F_internal
    /\ last.res.val.mtype = Bridge /\ last.res.val.id = 258
    /\ reader.buf = F_internal

-----------------------------------------------------------------------------
(* Properties of the handshake (Spec)                                      *)

\* a run() that found the session not Authenticated and so called connect()
ConnectRun == pc = "done" /\ last.op = "run" /\ last.pre.conn_state # "Authenticated"

\* the events of the last operation between positions a and b, exclusive
Between(e, a, b) == {i \in Events(e) : a < i /\ i < b}

\* the reads of the last operation, in the order they returned
Fills == Events("fill_buf") \cup Events("fill_buf_err")

\* the read at position i got a chunk whose first frame has status Ok
ReplyOk(i) ==
    /\ last.trace[i].e = "fill_buf"
    /\ Len(last.trace[i].data[1]) >= ProtocolHeaderSIZE
    /\ deserilize(last.trace[i].data[1]).tag = "Ok"
    /\ deserilize(last.trace[i].data[1]).val.status = StatusOk

\* the frames of the handshake
LoginFrame == serialize(Message(Login, 1, None, None, <<Token>>))
HeartbeatFrame ==
    serialize(Message(Internal, 2, None, None,
                      <<S_ver, CARGO_PKG_VERSION, S_buff_in, to_string(RCV_BUFFER),
                        S_h_beat, to_string(HEARTBEAT_PERIOD \div 1000), S_dev, S_rust>>))

\* send(frame) ran between positions a and b and nothing else was sent:
\* there is a write, and every write hands frame, or the front of it that
\* the transport accepted, to the transport (send repeats the write after a
\* failed flush)
OnlyWrites(frame, a, b) ==
    /\ Between("write", a, b) # {}
    /\ \A i \in Between("write", a, b) :
          /\ Len(last.trace[i].data[1]) >= ProtocolHeaderSIZE
          /\ last.trace[i].data[1] = SubSeq(frame, 1, Len(last.trace[i].data[1]))

\* the handshake as the events before position h: the transport opened,
\* only the Login message written, a reply with status Ok read, only the
\* heartbeat message written, a reply with status Ok read, nothing else
HandshakeBefore(h) ==
    \E o \in Events("open"), f1 \in Fills, f2 \in Fills :
        /\ o < f1 /\ f1 < f2 /\ f2 < h
        /\ Events("open") = {o}
        /\ {i \in Fills : i < h} = {f1, f2}
        /\ ReplyOk(f1) /\ ReplyOk(f2)
        /\ OnlyWrites(LoginFrame, o, f1)
        /\ OnlyWrites(HeartbeatFrame, f1, f2)
        /\ Between("write", 0, o) = {} /\ Between("write", f2, h) = {}
        /\ {i \in HandlerCalls : i < h} = {}

\* C12: in a connect() that succeeds the events occur in this order:
\* transport opened, Login(token) sent, login reply read with status Ok,
\* heartbeat-configuration Internal message sent, acknowledgment read with
\* status Ok, handle_connect invoked, exactly once, and no other message is
\* sent in between; handle_connect is not invoked in an attempt in which a
\* reply was missing or not Ok; with a handler installed and both replies Ok
\* it is invoked.
C12_HandshakeOrder ==
    ConnectRun =>
        /\ Cardinality(Events("handle_connect")) <= 1
        /\ \A h \in Events("handle_connect") : HandshakeBefore(h)
        /\ (/\ last.pre.handler # "None"
            /\ \E f1 \in Fills, f2 \in Fills : f1 < f2 /\ ReplyOk(f1) /\ ReplyOk(f2))
           => Events("handle_connect") # {}

\* C12, witness: a connect() that succeeded although the first attempt to
\* send the Login message failed at the flush
C12_Witness ==
    /\ ConnectRun
    /\ Events("handle_connect") # {}
    /\ Events("flush_err") # {}

\* both exchanges of the handshake completed with status Ok in the connect()
\* of the last operation
BothRepliesOk == \E f1 \in Fills, f2 \in Fills : f1 < f2 /\ ReplyOk(f1) /\ ReplyOk(f2)

\* C13 as stated: the session is Authenticated only if, in the current
\* connection, both the Login exchange and the heartbeat-configuration
\* exchange completed with status Ok; here for the state a run() that called
\* connect() leaves behind.
C13_AsStated == (ConnectRun /\ conn_state = "Authenticated") => BothRepliesOk

\* the first read of the last operation
FirstFill == CHOOSE i \in Fills : \A j \in Fills : i <= j

\* the status of the first frame of the chunk the read at position i got
\* (None when there is no such frame or it carries no status)
ReplyStatus(i) ==
    IF /\ last.trace[i].e = "fill_buf"
       /\ Len(last.trace[i].data[1]) >= ProtocolHeaderSIZE
       /\ deserilize(last.trace[i].data[1]).tag = "Ok"
    THEN deserilize(last.trace[i].data[1]).val.status
    ELSE None

\* a run() that called connect() and got a login reply with status s
LoginReplied(s) == ConnectRun /\ Fills # {} /\ ReplyStatus(FirstFill) = s

\* C14: when the login reply carries status InvalidToken, connect() fails
\* with InvalidAuthToken (run() reports that error), only the Login message
\* was sent before the reply and nothing is sent after it (no
\* heartbeat-configuration message, no second Login), handle_connect is not
\* invoked, and the run() iteration returns with the session Disconnected.
C14_InvalidToken ==
    LoginReplied(StatusInvalidToken) =>
        /\ last.res = Ok(0) /\ ~crashed
        /\ Cardinality(Events("InvalidAuthToken")) = 1
        /\ \E o \in Events("open") : OnlyWrites(LoginFrame, o, FirstFill)
        /\ Between("write", FirstFill, Len(last.trace) + 1) = {}
        /\ Fills = {FirstFill}
        /\ Events("handle_connect") = {}
        /\ conn_state = "Disconnected"

\* C14, witness: a login reply with status InvalidToken, with a handler
\* installed
C14_Witness ==
    LoginReplied(StatusInvalidToken) /\ last.pre.handler # "None"

\* the type of the first frame of the chunk the read at position i got
\* (None when there is no such frame)
ReplyType(i) ==
    IF /\ last.trace[i].e = "fill_buf"
       /\ Len(last.trace[i].data[1]) >= ProtocolHeaderSIZE
       /\ deserilize(last.trace[i].data[1]).tag = "Ok"
    THEN deserilize(last.trace[i].data[1]).val.mtype
    ELSE None

\* C15 as stated: when the message read as the login reply has type
\* Redirect, connect() fails with Redirection (run() reports that error),
\* the process is not aborted, the session is not authenticated, and the
\* run() iteration returns with the session Disconnected.
C15_AsStated ==
    (ConnectRun /\ Fills # {} /\ ReplyType(FirstFill) = Redirect) =>
        /\ ~crashed
        /\ Events("Redirection") # {}
        /\ conn_state = "Disconnected"

\* a run() whose connect() got a login reply with status Ok and then read a
\* message at position i as the heartbeat-configuration acknowledgment
AckRead(i) ==
    /\ LoginReplied(StatusOk)
    /\ i \in Fills /\ FirstFill < i /\ Between("fill_buf", FirstFill, i) = {}
    /\ Between("fill_buf_err", FirstFill, i) = {}
    /\ ReplyType(i) # None

\* C16 as stated: when the message read as the heartbeat-configuration
\* acknowledgment does not carry status Ok (another status, or a
\* body-bearing message without status), connect() fails with the
\* heartbeat error (run() reports it), handle_connect is not invoked, and
\* the run() iteration returns with the session Disconnected.
C16_AsStated ==
    \A i \in Fills :
        (AckRead(i) /\ ReplyStatus(i) # StatusOk) =>
            /\ ~crashed
            /\ Events("HeartbeatSet") # {}
            /\ Events("handle_connect") = {}
            /\ conn_state = "Disconnected"

\* the type field of a frame's header
FrameType(bytes) == bytes[1]

\* a run() that called disconnect(), which ends with the reconnect sleep
RunDisconnected == pc = "done" /\ last.op = "run" /\ Events("sleep") # {}

\* C17: after every disconnect() the session state is Disconnected and the
\* id counter is 0 (and the counter is 0 whenever the session is
\* Disconnected), so in every connection, the first one and every
\* reconnection, the Login message is sent with id 1 and the
\* heartbeat-configuration message with id 2.
C17_DisconnectResets ==
    /\ RunDisconnected => (conn_state = "Disconnected" /\ msg_id = 0)
    /\ conn_state = "Disconnected" => msg_id = 0
    /\ ConnectRun =>
          \A i \in Events("write") :
              /\ FrameType(last.trace[i].data[1]) = Login => FrameId(last.trace[i].data[1]) = 1
              /\ FrameType(last.trace[i].data[1]) = Internal => FrameId(last.trace[i].data[1]) = 2

\* C17, witness: a reconnection (the reader of the previous connection is
\* still there) that went through the handshake, after which the session
\* was found dead and disconnected again
C17_Witness ==
    /\ ConnectRun /\ RunDisconnected
    /\ last.pre.reader.some
    /\ \E i \in Events("write") : FrameType(last.trace[i].data[1]) = Internal

-----------------------------------------------------------------------------
(* Properties of Client::disconnect (ClientSpec)                           *)

\* C18 as stated: after disconnect() returns the client holds no transport
\* and no read buffer, in both variants; a send or read issued while no
\* transport is open (none was set yet, or the last one was shut down by
\* disconnect) fails with the no-transport error and does not touch a
\* socket.
C18_AsStated ==
    /\ (pc = "done" /\ last.op = "disconnect") => (~reader.some /\ reader.buf = <<>>)
    /\ (pc = "done" /\ last.op \in {"send", "read"} /\ ~net.up) =>
          /\ last.res \in {Err("StreamIsNone"), Err("ReaderNotAvailable")}
          /\ last.trace = <<>>

-----------------------------------------------------------------------------
(* Properties of run() (Spec)                                              *)

\* the events of the transport, the clock and the handlers; run() adds to
\* them the report of a failed connect(), named by its error
PlainEvents ==
    {"open", "write", "write_err", "flush", "flush_err", "read", "fill_buf",
     "fill_buf_err", "is_server_alive", "shutdown", "sleep", "handle_connect",
     "handle_disconnect", "handle_vpin_write", "handle_vpin_read", "handle_internal"}

\* the reports of a failed connect() in the last operation
ConnectErrors == {i \in 1..Len(last.trace) : last.trace[i].e \notin PlainEvents}

\* the events named in es at positions after x in the last operation
After(es, x) == {i \in 1..Len(last.trace) : i > x /\ last.trace[i].e \in es}

\* C19: when run() finds the session not Authenticated and connect()
\* returns an error, at whatever step (name resolution, TCP connect, login,
\* heartbeat setup), run() invokes handle_disconnect exactly once (if a
\* handler is installed), leaves the session Disconnected and returns
\* without a read, a liveness check or a dispatch in that iteration.
C19_FailedConnect ==
    (ConnectRun /\ ConnectErrors # {}) =>
        \E x \in ConnectErrors :
            /\ ConnectErrors = {x}
            /\ last.res = Ok(0) /\ ~crashed
            /\ conn_state = "Disconnected"
            /\ Cardinality(Events("handle_disconnect"))
                   = IF last.pre.handler = "None" THEN 0 ELSE 1
            /\ \A d \in Events("handle_disconnect") : d > x
            /\ After({"read", "fill_buf", "fill_buf_err", "is_server_alive", "write",
                      "write_err", "open"}, x) = {}
            /\ Events("is_server_alive") = {}
            /\ HandlerCalls \subseteq Events("handle_disconnect")

\* C19, witness: with a handler installed, a connect() that failed at the
\* heartbeat setup
C19_Witness ==
    /\ ConnectRun /\ last.pre.handler # "None"
    /\ Events("HeartbeatSet") # {}

\* a run() entered with the session Authenticated
SteadyRun == pc = "done" /\ last.op = "run" /\ last.pre.conn_state = "Authenticated"

\* the inbound messages the last operation dispatched to the handler
Dispatches ==
    Events("handle_vpin_write") \cup Events("handle_vpin_read") \cup Events("handle_internal")

\* C20 as stated: in a run() entered with the session Authenticated the
\* liveness check is performed before any read; if it judges the server
\* dead, disconnect is invoked and there is no read and no dispatch in that
\* iteration; otherwise exactly one read() is attempted and at most one
\* inbound message is dispatched.
C20_AsStated ==
    SteadyRun =>
        /\ \A r \in Events("read") : \E a \in Events("is_server_alive") : a < r
        /\ Events("sleep") # {} => (Events("read") = {} /\ Dispatches = {})
        /\ (Events("sleep") = {} /\ ~crashed) =>
               (Cardinality(Events("read")) = 1 /\ Cardinality(Dispatches) <= 1)

-----------------------------------------------------------------------------
(* Properties of the liveness check (Spec)                                 *)

\* a run() that performed the liveness check, at position a of its trace
Checked(a) == pc = "done" /\ last.op = "run" /\ ~crashed /\ a \in Events("is_server_alive")

\* the deltas the check at position a computed
RcvDelta(a) == last.trace[a].data[1][1]
PingDelta(a) == last.trace[a].data[1][2]
SendDelta(a) == last.trace[a].data[1][3]

\* the condition under which the check pings
PingDue(a) ==
    /\ PingDelta(a) > HEARTBEAT_PERIOD \div 10
    /\ SendDelta(a) > HEARTBEAT_PERIOD \/ RcvDelta(a) > HEARTBEAT_PERIOD

\* where the check at position a ends: at the read that follows it (async
\* variant), at the disconnect it causes, or with the operation
CheckEnd(a) ==
    LET later == After({"read", "handle_disconnect", "shutdown", "sleep"}, a)
    IN IF later = {} THEN Len(last.trace) + 1
       ELSE CHOOSE i \in later : \A j \in later : i <= j

\* the attempts to write during the check at position a, and its flushes
PingAttempts(a) == Between("write", a, CheckEnd(a)) \cup Between("write_err", a, CheckEnd(a))
PingFlushed(a) == Between("flush", a, CheckEnd(a))

\* C21: in a liveness check with recv_delta <= 1.5 H a Ping is sent if and
\* only if ping_delta > H/10 and (send_delta > H or recv_delta > H); only
\* the Ping frame is written; when the send succeeds last_ping_time is
\* reset to now and the server is judged alive (no disconnect); when the
\* send fails the server is judged dead and the session is disconnected;
\* when the condition is false nothing is sent, last_ping_time is unchanged
\* and the server is judged alive.
C21_PingRule ==
    \A a \in Events("is_server_alive") :
        (Checked(a) /\ RcvDelta(a) <= HEARTBEAT_PERIOD + HEARTBEAT_PERIOD \div 2) =>
            /\ PingDue(a) <=> PingAttempts(a) # {}
            /\ \A i \in Between("write", a, CheckEnd(a)) :
                   FrameType(last.trace[i].data[1]) = Ping
            /\ (PingDue(a) /\ PingFlushed(a) # {}) =>
                   (last_ping_time = 0 /\ Events("sleep") = {}
                      /\ conn_state = "Authenticated")
            /\ (PingDue(a) /\ PingFlushed(a) = {}) =>
                   (Cardinality(PingAttempts(a)) = RETRIES_TX_MAX_NUM
                      /\ Events("sleep") # {} /\ conn_state = "Disconnected")
            /\ ~PingDue(a) =>
                   (last_ping_time = PingDelta(a) /\ Events("sleep") = {}
                      /\ conn_state = "Authenticated")

\* C21, witness: a check that found the last ping old but something sent
\* and received within the heartbeat period, so did not ping
C21_Witness ==
    \E a \in Events("is_server_alive") :
        /\ Checked(a)
        /\ PingDelta(a) > HEARTBEAT_PERIOD \div 10
        /\ ~PingDue(a)

-----------------------------------------------------------------------------
(* Properties of reconnection (Spec)                                       *)

\* C22 as stated: no connect attempt makes the session give up: whatever
\* the replies to Login and to the heartbeat configuration were (invalid
\* token, redirect, rejected heartbeat, unexpected status, empty or
\* malformed reply), run() returns, the process is alive and the session is
\* Disconnected or Authenticated, so that the next run() can make a fresh
\* attempt.
C22_AsStated ==
    ConnectRun =>
        /\ ~crashed
        /\ last.res = Ok(0)
        /\ conn_state \in {"Disconnected", "Authenticated"}

-----------------------------------------------------------------------------
(* Properties of decoding errors (ClientSpec)                              *)

\* a read() that got a chunk with at least a header
ReadGotHeader ==
    /\ pc = "done" /\ last.op = "read"
    /\ Events("fill_buf") # {}
    /\ Len(ReadChunk) >= ProtocolHeaderSIZE

\* the header at the front of the chunk of the read performed last
ReadHeader == read_from(ReadChunk)

\* C23: decoding a frame with a non-zero id whose type code is not one of
\* the enumerated values fails with the error of the type conversion and
\* returns no message; the process is not aborted and read() consumes no
\* byte of the chunk.
C23_UnknownType ==
    (ReadGotHeader /\ ReadHeader.id # 0 /\ ReadHeader.mtype \notin MessageType) =>
        /\ last.res = Err(ErrTryFromType)
        /\ ~crashed
        /\ reader.buf = ReadChunk
        /\ deserilize(ReadChunk) = Err(ErrTryFromType)

\* C23, witness: a read() of a frame with type code 255 and id 258
\* followed by 3 bytes
C23_Witness ==
    /\ ReadGotHeader /\ ReadHeader.mtype = 255 /\ ReadHeader.id = 258
    /\ Len(ReadChunk) = ProtocolHeaderSIZE + 3

\* a read() that found a Response or Ping header with a non-zero id
ReadStatusFrame ==
    ReadGotHeader /\ ReadHeader.id # 0 /\ ReadHeader.mtype \in {Rsp, Ping}

\* C24 as stated: decoding a Response or Ping frame with a non-zero id
\* whose value is not a recognized status code fails with an error returned
\* to the caller, the process is not aborted; when the value is a
\* recognized code the decoded message carries that status and an empty
\* body.
C24_AsStated ==
    /\ (ReadStatusFrame /\ ReadHeader.value \notin ProtocolStatus) =>
           (last.res.tag = "Err" /\ ~crashed)
    /\ (ReadStatusFrame /\ ReadHeader.value \in ProtocolStatus) =>
           /\ last.res.tag = "Ok"
           /\ last.res.val.status = ReadHeader.value
           /\ last.res.val.body = <<>>

-----------------------------------------------------------------------------
(* Properties of the read step of run() (Spec)                             *)

\* the chunk the single read of a run() entered Authenticated got
SteadyChunk == last.trace[CHOOSE i \in Events("fill_buf") : TRUE].data[1]

\* a run() entered Authenticated whose read got a chunk with a header
SteadyRead ==
    /\ SteadyRun /\ Events("fill_buf") # {}
    /\ Len(SteadyChunk) >= ProtocolHeaderSIZE

\* the frame at the front of the chunk has a zero id / a type code outside
\* the enumeration / a Response or Ping value that is no status code
ZeroIdFrame == read_from(SteadyChunk).id = 0
UnknownTypeFrame ==
    read_from(SteadyChunk).id # 0 /\ read_from(SteadyChunk).mtype \notin MessageType
InvalidStatusFrame ==
    /\ read_from(SteadyChunk).id # 0
    /\ read_from(SteadyChunk).mtype \in {Rsp, Ping}
    /\ read_from(SteadyChunk).value \notin ProtocolStatus

\* the iteration did nothing with what it read: the process is alive, no
\* inbound message was dispatched, nothing was written between the read and
\* the liveness check or the end of the iteration, and, unless the liveness
\* check of the same iteration pinged, the session is Authenticated and the
\* id counter is unchanged
ReadWasNoOp ==
    /\ ~crashed /\ last.res = Ok(0)
    /\ Dispatches = {} /\ Events("handle_connect") = {}
    /\ \A r \in Events("read") :
           LET later == After({"is_server_alive"}, r)
               stop == IF later = {} THEN Len(last.trace) + 1
                       ELSE CHOOSE i \in later : \A j \in later : i <= j
           IN Between("write", r, stop) \cup Between("write_err", r, stop) = {}
    /\ (Events("write") \cup Events("write_err") = {}) =>
           (conn_state = "Authenticated" /\ msg_id = last.pre.msg_id)

\* C25 as stated: when, in an Authenticated session, the read() of a run()
\* iteration fails with a codec-level error (zero id, unknown type, invalid
\* status), the iteration is a no-op: no handler is invoked, nothing is
\* sent in reply, the session stays Authenticated, the id counter is
\* unchanged and the process does not crash.
C25_AsStated ==
    (SteadyRead /\ (ZeroIdFrame \/ UnknownTypeFrame \/ InvalidStatusFrame)) => ReadWasNoOp

-----------------------------------------------------------------------------
(* The two variants compared (Spec)                                        *)

\* the actions of an iteration a user or the peer can observe: liveness
\* check, read, frames written, handler invocations, disconnect
ObservableEvents ==
    {"is_server_alive", "read", "write", "handle_connect", "handle_disconnect",
     "handle_vpin_write", "handle_vpin_read", "handle_internal", "sleep"}

Observable(trace) ==
    LET keep == SelectSeq(trace, LAMBDA e : e.e \in ObservableEvents)
    IN [i \in 1..Len(keep) |->
           IF keep[i].e = "is_server_alive" THEN Ev("is_server_alive", 0, <<>>)
           ELSE keep[i]]

\* what one run() iteration did and left behind
Outcome(r) ==
    [actions |-> Observable(r.w.trace), ended |-> r.res.tag,
     conn_state |-> r.w.conn_state, msg_id |-> r.w.msg_id,
     last_rcv_time |-> r.w.last_rcv_time, last_ping_time |-> r.w.last_ping_time,
     last_send_time |-> r.w.last_send_time]

\* run() of variant v from the current state, with arrival a at the socket
\* and the transport answering the writes as script says
RunAs(v, a, script) ==
    Outcome(run([Cur(<<a>>, script) EXCEPT !.build.variant = v], "ok"))

\* C26 as stated: from the same state, with the same transport events and
\* clock readings, one run() iteration of the blocking variant and one of
\* the async variant perform the same sequence of observable actions and
\* leave the same session state, id counter and liveness timestamps; here
\* for every Authenticated state between two iterations.
C26_AsStated ==
    (Idle /\ IdRoom /\ conn_state = "Authenticated") =>
        \A a \in SteadyArrivals, script \in FewScripts :
            RunAs("blocking", a, script) = RunAs("async", a, script)

-----------------------------------------------------------------------------
(* Properties of the race of read_response() with the timer (Spec)         *)

\* the attempts to write that the read step at position r of the last
\* operation made, those that failed, and those that were flushed
StepAttempts(r) == After({"write", "write_err", "write_pending"}, r)
StepFailures(r) == After({"write_err", "flush_err"}, r)
StepFlushes(r) == After({"flush"}, r)

\* C27 as stated: in the async variant a send-with-retry that started
\* during the read step of run() (the Ping reply of process(), a send of a
\* handler) either completes or exhausts its retry budget; the timer raced
\* against the read step never cancels it.
C27_AsStated ==
    (pc = "done" /\ last.op = "run" /\ build.variant = "async" /\ ~crashed) =>
        \A r \in Events("read") :
            (After({"is_server_alive"}, r) = {} /\ StepAttempts(r) # {}) =>
                \/ StepFlushes(r) # {}
                \/ Cardinality(StepFailures(r)) = RETRIES_TX_MAX_NUM

-----------------------------------------------------------------------------
(* Properties of id allocation (ClientSpec)                                *)

\* a locally-originated send primitive was called
Originated == pc = "done" /\ last.op \in OriginateOps

\* the call advanced the counter by one; without a transport it failed
\* without an attempt to write
AllocatedOne ==
    /\ ~crashed
    /\ msg_id = last.pre.msg_id + 1
    /\ ~last.pre.reader.some =>
           (last.res = Err("StreamIsNone") /\ last.trace = <<>>)

\* C28 as stated: every call of a locally-originated send primitive
\* advances the id counter by exactly one, whether the write succeeds,
\* fails after all retries, or no transport is present (then the call
\* fails with an error and makes no write attempt).
C28_AsStated == Originated => AllocatedOne

-----------------------------------------------------------------------------
(* Properties of the shapes process() does not route (DispatchSpec)        *)

\* the bodies of Hardware and Bridge messages that process() routes
RoutedShape(body) ==
    \/ Len(body) >= 3 /\ body[1] = S_vw
    \/ Len(body) = 2 /\ body[1] = S_vr

\* the messages the claim says are ignored
Unrouted(msg) ==
    \/ msg.mtype \in {Hw, Bridge} /\ ~RoutedShape(msg.body)
    \/ msg.mtype \notin {Internal, Hw, Bridge, Ping}

\* C29: with a handler installed, process(msg) invokes no handler, sends
\* nothing and returns success when msg is a Hardware or Bridge message
\* whose body is none of the routed shapes (e.g. ["vw", p], ["vr", p, x], a
\* first field other than "vw"/"vr", fewer than 2 fields), and when msg has
\* a type other than Internal, Hardware, Bridge or Ping.
C29_UnroutedIgnored ==
    (Dispatched /\ Unrouted(last.arg)) =>
        /\ last.res = Ok(0) /\ ~crashed
        /\ last.trace = <<>>
        /\ msg_id = last.pre.msg_id

\* C29, witness: a Bridge message ["vr", "22", "h"] with the handler of
\* main.rs installed
C29_Witness ==
    /\ Dispatched /\ last.pre.handler = "EventsHandler"
    /\ last.arg.mtype = Bridge
    /\ last.arg.body = <<S_vr, to_string(22), <<104>> >>

\* a Hardware or Bridge message of a routed shape whose pin field is not a
\* decimal integer in 0..255
MalformedPin(msg) ==
    /\ msg.mtype \in {Hw, Bridge}
    /\ RoutedShape(msg.body)
    /\ parse_u8(msg.body[2]) = None

\* C30 as stated: for a Hardware or Bridge message ["vw", p, v, ...] or
\* ["vr", p] whose p is not a decimal integer in 0..255, process() returns a
\* parse error to its caller: no handler is invoked, the message is not
\* silently ignored, and the process goes on.
C30_AsStated ==
    (Dispatched /\ MalformedPin(last.arg)) =>
        /\ ~crashed
        /\ last.res.tag = "Err"
        /\ HandlerCalls = {}

-----------------------------------------------------------------------------
(* Properties of the handshake's failures and of the session state (Spec)  *)

\* a run() that called connect(), sent Login and whose read of the login
\* reply failed: the transport gave an error or no byte (the peer closed the
\* connection), or the bytes it gave do not decode
LoginReplyUnavailable ==
    /\ ConnectRun /\ Fills # {}
    /\ \/ last.trace[FirstFill].e = "fill_buf_err"
       \/ Len(last.trace[FirstFill].data[1]) = 0
       \/ deserilize(last.trace[FirstFill].data[1]).tag = "Err"

\* C31 as stated: when, after Login has been sent, reading the login reply
\* fails, the connect attempt is aborted with an error (run() reports it),
\* the process lives, and the run() iteration invokes disconnect and ends
\* with the session Disconnected, so that the next run() retries.
C31_AsStated ==
    LoginReplyUnavailable =>
        /\ ~crashed
        /\ last.res = Ok(0)
        /\ ConnectErrors # {}
        /\ Events("sleep") # {}
        /\ conn_state = "Disconnected"

-----------------------------------------------------------------------------
(* Properties of the header's length field (CodecSpec)                     *)

\* a text of 2^16 + 2 bytes, longer than a u16 counts
LongText == [i \in 1..(U16 + 2) |-> 97]

\* the message serialized last, and the same message with its first field
\* made longer by that text
Lengthened == {cin.msg, [cin.msg EXCEPT !.body[1] = @ \o LongText]}

\* C32 as stated: for every message that serialize() emits with a body, the
\* value field of the header equals the number of body bytes that follow
\* the header, for every body length, 65536 bytes or more included.
C32_AsStated ==
    (cop = "serialize" /\ Len(cin.msg.body) > 0) =>
        \A m \in Lengthened :
            read_from(serialize(m)).value = Len(serialize(m)) - ProtocolHeaderSIZE

-----------------------------------------------------------------------------
(* Properties of the connection state between calls of run() (Spec)        *)

\* the states a session rests in
RestingStates == {"Disconnected", "Authenticated"}

\* the last operation was a run() that returned to its caller
RunReturned == pc = "done" /\ last.op = "run" /\ last.res.tag = "Ok"

\* C33: whenever a run() invocation returns, the session state is either
\* Disconnected or Authenticated; Connecting and Authenticating are never
\* observable between two run() invocations, whatever name resolution, the
\* TCP connect, the login and the heartbeat setup did.
C33_RestingState ==
    /\ RunReturned => conn_state \in RestingStates
    /\ Idle => conn_state \in RestingStates

\* C33, witness: a run() whose connect() was refused at the login, in state
\* Authenticating, returned with the session Disconnected
C33_Witness ==
    /\ RunReturned /\ ConnectRun
    /\ Events("InvalidAuthToken") # {}
    /\ conn_state = "Disconnected"

-----------------------------------------------------------------------------
(* Properties of the bodies read() hands to the dispatcher (Spec)          *)

\* the message at the front of the chunk the read of a run() got
SteadyMessage == deserilize(SteadyChunk).val

\* a run() entered Authenticated whose read returned a message of a
\* body-bearing type
SteadyBodyRead ==
    /\ SteadyRead
    /\ deserilize(SteadyChunk).tag = "Ok"
    /\ SteadyMessage.mtype \in BodyTypes

\* C34: every message deserilize returns for a Hardware, Bridge, Internal or
\* Redirect frame has at least one body field, a frame with body_len 0
\* giving the single empty field; so for every Internal message obtained
\* from read() the dispatcher's slice body[1..] is in range: the process is
\* not aborted and, with a handler installed, handle_internal is invoked
\* once with the fields after the first.
C34_BodyNeverEmpty ==
    SteadyBodyRead =>
        /\ Len(SteadyMessage.body) >= 1
        /\ read_from(SteadyChunk).value = 0 => SteadyMessage.body = << <<>> >>
        /\ SteadyMessage.mtype = Internal =>
               /\ ~crashed /\ last.res = Ok(0)
               /\ last.pre.handler # "None" =>
                      /\ Cardinality(Events("handle_internal")) = 1
                      /\ \A i \in Events("handle_internal") :
                             last.trace[i].data = Tail(SteadyMessage.body)

\* C34, witness: with a handler installed, an Internal frame with body_len 0
\* was read and dispatched as handle_internal([])
C34_Witness ==
    /\ SteadyBodyRead
    /\ SteadyChunk = write_to(Internal, 9, 0)
    /\ last.pre.handler # "None"
    /\ \E i \in Events("handle_internal") : last.trace[i].data = <<>>
    /\ ~crashed

-----------------------------------------------------------------------------
(* Properties of the id counter at the end of its range (ClientSpec)       *)

\* C35 as stated: the 16-bit id counter never produces the reserved id 0:
\* however many locally-originated sends a connection makes, more than
\* 65535 included, no frame is sent with id 0 and the counter does not wrap
\* from 65535 to 0.
C35_AsStated ==
    (pc = "done" /\ last.op \in OriginateOps) =>
        /\ \A f \in Written : FrameId(f) # 0
        /\ last.pre.msg_id = U16 - 1 => msg_id # 0

-----------------------------------------------------------------------------
(* Properties of a read() after a decode error (ClientSpec)                *)

\* a read() that failed with an error of the decoder
ReadDecodeError ==
    /\ pc = "done" /\ last.op = "read"
    /\ last.res.tag = "Err" /\ last.res.err \in DecodeErrors

\* a read() that found buffered bytes the decoder rejects, as a read that
\* failed with a decode error leaves them
ReadFoundUndecodable ==
    /\ pc = "done" /\ last.op = "read"
    /\ Len(last.pre.reader.buf) > 0
    /\ deserilize(last.pre.reader.buf).tag = "Err"

\* C36: a read() that fails with a decode error consumes no bytes: the
\* buffer holds exactly the chunk the decoder was given (and is as it was
\* when the bytes were buffered before); the next read() sees the same
\* bytes, takes nothing from the transport and fails with the same error, so
\* no later frame of the buffer or of the transport is decoded while this
\* reader is in place.
C36_DecodeErrorStays ==
    /\ ReadDecodeError =>
           /\ Len(ReadChunk) > 0
           /\ reader.buf = ReadChunk
           /\ last.res = deserilize(ReadChunk)
           /\ Len(last.pre.reader.buf) > 0 => reader = last.pre.reader
           /\ ~crashed /\ msg_id = last.pre.msg_id
    /\ ReadFoundUndecodable =>
           /\ last.res = deserilize(last.pre.reader.buf)
           /\ ReadChunk = last.pre.reader.buf
           /\ Cardinality(Fills) = 1
           /\ reader = last.pre.reader
           /\ ~crashed

\* C36, witness: a read() that found the bytes of a frame with an unknown
\* type code still buffered and failed on them again
C36_Witness ==
    /\ ReadFoundUndecodable
    /\ last.pre.reader.buf = write_to(7, 1, 0)
    /\ last.res = Err(ErrTryFromType)
    /\ reader.buf = write_to(7, 1, 0)

-----------------------------------------------------------------------------
(* Properties of a frame split across transport reads (ClientSpec)         *)

\* a read() whose chunk holds the header of a body-bearing type with a
\* non-zero id and fewer bytes after it than the header states
ReadSplitFrame ==
    /\ ReadGotHeader
    /\ ReadHeader.id # 0
    /\ ReadHeader.mtype \in BodyTypes
    /\ Len(ReadChunk) < ProtocolHeaderSIZE + ReadHeader.value

\* C37 as stated: when the buffered chunk holds a complete header of a
\* body-bearing type with a non-zero id but fewer than body_len bytes after
\* it, read() returns an error and consumes nothing; it neither returns a
\* message with a truncated body nor aborts the process.
C37_AsStated ==
    ReadSplitFrame =>
        /\ ~crashed
        /\ last.res.tag = "Err"
        /\ reader.buf = ReadChunk

-----------------------------------------------------------------------------
(* Properties of the order of handle_connect and handle_disconnect (Spec)  *)

\* the events named e in a trace
EventsOf(trace, e) == {i \in 1..Len(trace) : trace[i].e = e}

\* a step that takes the session out of the Authenticated state
LeavesAuthenticated == conn_state = "Authenticated" /\ conn_state' # "Authenticated"

\* a step that is a call of run()
RunStep == pc = "idle" /\ pc' = "done" /\ last'.op = "run"

\* what every step does to the callbacks: the session leaves Authenticated
\* only in a run() that called disconnect(); handle_connect is invoked only
\* by a run() that found the session not Authenticated, at most once, and
\* leaves it Authenticated unless a disconnect follows; a connect() that
\* failed invokes handle_disconnect once and handle_connect not at all; a
\* handler once installed stays
CallbackStep ==
    /\ handler # "None" => handler' = handler
    /\ LeavesAuthenticated =>
           /\ RunStep /\ ~crashed'
           /\ conn_state' = "Disconnected"
           /\ msg_id' = 0
           /\ EventsOf(last'.trace, "sleep") # {}
           /\ handler # "None" =>
                  Cardinality(EventsOf(last'.trace, "handle_disconnect")) = 1
    /\ RunStep =>
           LET hc == EventsOf(last'.trace, "handle_connect")
               hd == EventsOf(last'.trace, "handle_disconnect")
               failed == IF conn_state = "Authenticated" THEN {}
                         ELSE {i \in 1..Len(last'.trace) :
                                  last'.trace[i].e \notin PlainEvents}
           IN /\ Cardinality(hc) <= 1 /\ Cardinality(hd) <= 1
              /\ hc # {} => conn_state # "Authenticated" /\ handler # "None"
              /\ (hc # {} /\ hd = {}) => conn_state' = "Authenticated"
              /\ \A i \in hc, j \in hd : i < j
              /\ hd # {} => (conn_state' = "Disconnected" /\ handler # "None")
              /\ failed # {} =>
                     /\ hc = {}
                     /\ Cardinality(hd) = IF handler = "None" THEN 0 ELSE 1

\* C38: over any sequence of run() invocations, between any two invocations
\* of handle_connect there is an invocation of handle_disconnect: the
\* session leaves the Authenticated state only through disconnect(), which
\* invokes handle_disconnect and resets the id counter, and handle_connect is
\* invoked only on entering it; handle_disconnect is also invoked, once and
\* without a handle_connect, by each connect attempt that failed.
C38_CallbackAlternation == [][CallbackStep]_vars

\* C38, witness: a session that had a connection before, and lost it,
\* connected again and invoked handle_connect
C38_Witness ==
    /\ ConnectRun /\ last.pre.reader.some
    /\ last.pre.handler # "None"
    /\ Events("handle_connect") # {}
    /\ conn_state = "Authenticated"

-----------------------------------------------------------------------------
(* Properties of the read buffer across connections (Spec)                 *)

\* s is what remains of t after some of its leading bytes were taken
Suffix(s, t) == Len(s) <= Len(t) /\ s = SubSeq(t, Len(t) - Len(s) + 1, Len(t))

\* the chunks the transport of a new connection delivers to the run() that
\* opened it
ConnectionChunks == {a.bytes : a \in LoginReplies \cup AckReplies \cup FirstArrivals}

\* a run() that opened a transport
OpenedRun == ConnectRun /\ Events("open") # {}

\* the chunk the read at position i of the last operation got
ChunkAt(i) == last.trace[i].data[1]

\* C39: bytes that were buffered and not consumed when a connection was
\* disconnected are never decoded or dispatched after a reconnect: opening a
\* transport installs an empty read buffer before any read, so in the run()
\* that opened it the login reply is read from what the new transport
\* delivered, every later chunk is a delivery of the new transport or what
\* remains of an earlier chunk of this connection, and so is the buffer the
\* run() leaves behind.
C39_NoStaleInput ==
    OpenedRun =>
        /\ \A o \in Events("open"), i \in Fills : o < i
        /\ Events("fill_buf") # {} =>
               \E a \in LoginReplies :
                   ChunkAt(CHOOSE i \in Events("fill_buf") :
                               \A j \in Events("fill_buf") : i <= j) = a.bytes
        /\ \A i \in Events("fill_buf") :
               \/ ChunkAt(i) \in ConnectionChunks
               \/ \E j \in Events("fill_buf") : j < i /\ Suffix(ChunkAt(i), ChunkAt(j))
        /\ \/ reader.buf = <<>>
           \/ \E j \in Events("fill_buf") : Suffix(reader.buf, ChunkAt(j))

\* C39, witness: a session disconnected with three bytes of a frame still
\* buffered connected again and read its login reply and acknowledgment
C39_Witness ==
    /\ OpenedRun
    /\ last.pre.reader.buf = SubSeq(F_vw, 1, 3)
    /\ conn_state = "Authenticated"
    /\ Len(reader.buf) = 0

-----------------------------------------------------------------------------
(* Properties of the timer of the async run() (Spec)                       *)

\* a run() of the async variant, entered Authenticated, whose read() returned
\* a message and so consumed its frame from the buffer
AsyncConsumed ==
    /\ SteadyRead /\ build.variant = "async"
    /\ deserilize(SteadyChunk).tag = "Ok"
    /\ Suffix(reader.buf, SteadyChunk) /\ Len(reader.buf) < Len(SteadyChunk)

\* C40 as stated: in the async variant every inbound frame that read() has
\* consumed is dispatched to completion: the timer raced against
\* read_response never ends an iteration in which a write of the dispatch
\* (the Ping reply, a write of the handler) is still pending, and the reply
\* to a consumed Ping was handed to the transport.
C40_AsStated ==
    (AsyncConsumed /\ ~crashed) =>
        /\ Events("write_pending") = {}
        /\ SteadyMessage.mtype = Ping =>
               Events("write") \cup Events("write_err") \cup Events("flush_err") # {}

====
